---- MODULE Spec2Model ----
(***************************************************************************)
(* The WMS mock server of src/wms_server/index.js: a TCP JSON-lines        *)
(* server with an adapter registry, an in-memory package store and         *)
(* setTimeout-driven package lifecycle events.                             *)
(*                                                                         *)
(* Time is counted in ticks of 1000 ms, the greatest common divisor of the *)
(* three configured delays.  A timer fires in the tick in which it falls   *)
(* due: event-loop latency is far below one tick.                          *)
(*                                                                         *)
(* Beside it stand the driver assignment of the ROS mock server            *)
(* (src/ros_server/server.js) and the order timers of the CMS mock server  *)
(* (src/unnamed/part_001), each with a specification of its own.           *)
(***************************************************************************)
EXTENDS Naturals, Integers, Sequences, FiniteSets, TLC

\* ------------------------------------------------------------------ bounds
\* the inbound requests of a run: connections accepted, lines received and
\* admin requests served
MaxRequests == 4
\* the complete lines one data event carries
MaxLines == 2

\* --------------------------------------------------- configuration (ticks)
DEFAULT_DELAY_MS == 3
PACKAGE_READY_EXTRA_MS == 1
DEFAULT_LOAD_DELAY_MS == 2

VARIABLES
    sockets,     \* socket -> "unconnected" | "open" | "destroyed"
    adapterId,   \* socket -> the adapterId variable of the connection closure
    adapters,    \* the adapters Map: adapterId -> socket
    packages,    \* the packages Map: packageId -> package object
    timers,      \* pending setTimeout callbacks, in scheduling order
    errorMode,   \* the errorMode flag
    ERROR_RATE,  \* the configured failure rate, in halves
    clock,       \* the wall clock read by nowISO()
    buffer,      \* socket -> the complete lines of its buffer still to dispatch
    requests,    \* the number of inbound requests served so far
    uuids,       \* the values uuidv4() has returned to makePackageId
    issued,      \* the identities makePackageId has returned, in order
    arrived,     \* the characters one connection has received, in order
    bufferChars, \* the buffer string of that connection
    dispatched,  \* the lines its data handler has passed on to tryParseJson
    drivers,     \* ROS: the drivers Map: driverId -> driver object
    inFlight,    \* ROS: the assign-driver requests awaiting simulateProcessingDelay()
    rosRequests, \* ROS: the number of requests accepted so far
    trips,       \* ROS: driverId -> the orders assigned to it since its last reset, in order
    cmsOrders,   \* CMS: the cmsOrders object: cmsOrderId -> order
    cmsTimers,   \* CMS: pending setTimeout callbacks, in scheduling order
    cmsClock,    \* CMS: the time elapsed, in ticks
    cmsRequests, \* CMS: the number of requests served so far
    sent,        \* socket -> the lines written to it by the last step
    last         \* the last step taken (what was handled, on which socket)

\* the variables that follow one call sequence of makePackageId and the
\* character stream of one connection
idVars == <<uuids, issued>>
streamVars == <<arrived, bufferChars, dispatched>>
\* the variables of the ROS mock server and of the CMS mock server
rosVars == <<drivers, inFlight, rosRequests, trips>>
cmsVars == <<cmsOrders, cmsTimers, cmsClock, cmsRequests>>

vars == <<sockets, adapterId, adapters, packages, timers, errorMode,
          ERROR_RATE, clock, buffer, requests, uuids, issued, arrived,
          bufferChars, dispatched, drivers, inFlight, rosRequests, trips,
          cmsOrders, cmsTimers, cmsClock, cmsRequests, sent, last>>

\* ------------------------------------------------------------------ values
Sockets == 1..MaxRequests
Absent == "<absent>"
AdapterIdsSupplied == {"adp-1"}
OrderIds == {"o1"}
VehicleIds == {"v9"}
\* Math.random() and ERROR_RATE in halves: the draws 0.0 and 0.5, the rates
\* 0.0 (no random failure) and 0.5
RandomDraws == {0, 1}
Rates == {0, 1}

\* a JavaScript value that is falsy: a field that is absent, or the empty string
Falsy(v) == v \in {Absent, ""}
\* a || b on field values
OrElse(a, b) == IF Falsy(a) THEN b ELSE a

\* ----------------------------------------------------------------- helpers
\* shortId(): eight hex digits of a fresh uuid.  The n-th identifier stands
\* for the n-th draw; a draw is taken to differ from every identifier still
\* held anywhere in the state.
shortId(n) == ToString(n)

makePackageId == "pkg-" \o shortId(Cardinality(DOMAIN packages) + 1)

GeneratedAdapterIds == {"adapter-" \o shortId(n) : n \in 1..MaxRequests}
AdapterIdsHeld == DOMAIN adapters \cup {adapterId[s] : s \in Sockets}
newAdapterId == CHOOSE a \in GeneratedAdapterIds \ AdapterIdsHeld : TRUE

GeneratedVehicleIds == {"v-" \o shortId(n) : n \in 1..MaxRequests}
VehicleIdsHeld ==
    {timers[i].vehicleId : i \in {j \in 1..Len(timers) : timers[j].kind = "load"}}
        \cup {packages[p].assignedVehicle : p \in DOMAIN packages}
newVehicleId == CHOOSE v \in GeneratedVehicleIds \ VehicleIdsHeld : TRUE

nowISO == clock

NoOutput == [s \in Sockets |-> <<>>]

sendLine(out, socket, obj) ==
    IF sockets[socket] # "open"
    THEN out
    ELSE [out EXCEPT ![socket] = Append(@, obj)]

broadcastToAdapters(out, obj) ==
    [s \in Sockets |->
        IF sockets[s] # "open"
        THEN out[s]
        ELSE out[s] \o [i \in 1..Cardinality({a \in DOMAIN adapters : adapters[a] = s}) |-> obj]]

\* sendToAdapterById
sendToAdapterById(out, id, obj) ==
    IF id \in DOMAIN adapters THEN sendLine(out, adapters[id], obj) ELSE out

RemoveAt(seq, i) == SubSeq(seq, 1, i - 1) \o SubSeq(seq, i + 1, Len(seq))

\* the failure test without the errorMode flag
ShouldFailByRate(r) == r < ERROR_RATE

\* the failure-injection test: errorMode || Math.random() < ERROR_RATE
ShouldFail(r) == errorMode \/ r < ERROR_RATE

\* ------------------------------------------- the ROS and CMS mock servers
\* src/ros_server/server.js and the CMS SOAP server run as processes of their
\* own; their state stands beside that of the WMS server and each is followed
\* by a specification of its own (RosSpec, CmsSpec).

\* the requests of a run of the ROS server, and of the CMS server
MaxRosRequests == 4
MaxCmsRequests == 4

\* the keys of the drivers Map, in insertion order (the order a for-of loop
\* over the Map visits them in)
DriverOrder == <<"driver-001", "driver-002", "driver-003", "driver-004">>
Drivers == {DriverOrder[i] : i \in 1..Len(DriverOrder)}
\* the four locations of the initial drivers Map
Places == {"nyc", "times_square", "queens", "brooklyn"}

\* const drivers = new Map([...])
InitialDrivers ==
    [d \in Drivers |->
        [status |-> IF d = "driver-004" THEN "on-trip" ELSE "available",
         currentLocation |->
            CASE d = "driver-001" -> "nyc"
              [] d = "driver-002" -> "times_square"
              [] d = "driver-003" -> "queens"
              [] d = "driver-004" -> "brooklyn",
         currentOrder |-> Absent]]

\* the ROS server after start-up
RosInit ==
    /\ drivers = InitialDrivers
    /\ inFlight = {}
    /\ rosRequests = 0
    /\ trips = [d \in Drivers |-> <<>>]

\* the CMS server after start-up: const cmsOrders = {}
CmsInit ==
    /\ cmsOrders = <<>>
    /\ cmsTimers = <<>>
    /\ cmsClock = 0
    /\ cmsRequests = 0

\* -------------------------------------------------------------------- Init
Init ==
    /\ sockets = [s \in Sockets |-> "unconnected"]
    /\ adapterId = [s \in Sockets |-> Absent]
    /\ adapters = <<>>
    /\ packages = <<>>
    /\ timers = <<>>
    /\ errorMode = FALSE
    /\ ERROR_RATE \in Rates
    /\ clock = 0
    /\ buffer = [s \in Sockets |-> <<>>]
    /\ requests = 0
    /\ uuids = {}
    /\ issued = <<>>
    /\ arrived = <<>>
    /\ bufferChars = <<>>
    /\ dispatched = <<>>
    /\ RosInit
    /\ CmsInit
    /\ sent = NoOutput
    /\ last = [op |-> "init"]

\* ------------------------------------------------------------ connections
\* net.createServer callback: a new socket, with an empty buffer and no adapterId
connection(socket) ==
    /\ sockets[socket] = "unconnected"
    /\ sockets' = [sockets EXCEPT ![socket] = "open"]
    /\ UNCHANGED <<adapterId, adapters, packages, timers>>

\* a close handler that also clears the timers scheduled for its socket
onCloseClearing(socket) ==
    /\ sockets[socket] = "open"
    /\ sockets' = [sockets EXCEPT ![socket] = "destroyed"]
    /\ adapters' =
          IF ~Falsy(adapterId[socket]) /\ adapterId[socket] \in DOMAIN adapters
          THEN [a \in DOMAIN adapters \ {adapterId[socket]} |-> adapters[a]]
          ELSE adapters
    /\ timers' = SelectSeq(timers, LAMBDA t : t.sock # socket)
    /\ UNCHANGED <<adapterId, packages>>

\* a close handler that also deletes the packages its socket awaits events of
onCloseDeletingPackages(socket) ==
    /\ sockets[socket] = "open"
    /\ sockets' = [sockets EXCEPT ![socket] = "destroyed"]
    /\ adapters' =
          IF ~Falsy(adapterId[socket]) /\ adapterId[socket] \in DOMAIN adapters
          THEN [a \in DOMAIN adapters \ {adapterId[socket]} |-> adapters[a]]
          ELSE adapters
    /\ packages' =
          [p \in {q \in DOMAIN packages :
                     \A i \in 1..Len(timers) :
                        ~(timers[i].pkg = q /\ timers[i].sock = socket)}
             |-> packages[p]]
    /\ timers' = SelectSeq(timers, LAMBDA t : t.sock # socket)
    /\ UNCHANGED adapterId

\* socket.on('close')
onClose(socket) ==
    /\ sockets[socket] = "open"
    /\ sockets' = [sockets EXCEPT ![socket] = "destroyed"]
    /\ adapters' =
          IF ~Falsy(adapterId[socket]) /\ adapterId[socket] \in DOMAIN adapters
          THEN [a \in DOMAIN adapters \ {adapterId[socket]} |-> adapters[a]]
          ELSE adapters
    /\ UNCHANGED <<adapterId, packages, timers>>

\* ---------------------------------------------------------------- handlers
\* register_adapter that acknowledges with the adapterId of the message
registerAdapterEchoing(sock, msg) ==
    LET id == OrElse(msg.adapterId, newAdapterId) IN
    /\ adapterId' = [adapterId EXCEPT ![sock] = id]
    /\ adapters' = (id :> sock) @@ adapters
    /\ sent' = sendLine(NoOutput, sock,
                  [type |-> "register_ack", adapterId |-> msg.adapterId,
                   status |-> "ok", timestamp |-> nowISO])
    /\ UNCHANGED <<packages, timers>>

\* handleTcpMessage: the register_adapter branch
registerAdapter(sock, msg) ==
    LET id == OrElse(msg.adapterId, newAdapterId) IN
    /\ adapterId' = [adapterId EXCEPT ![sock] = id]
    /\ adapters' = (id :> sock) @@ adapters
    /\ sent' = sendLine(NoOutput, sock,
                  [type |-> "register_ack", adapterId |-> id, status |-> "ok",
                   timestamp |-> nowISO])
    /\ UNCHANGED <<packages, timers>>

\* handleReceivePackage that stores the package before it tests for failure
handleReceivePackageStoreFirst(sock, msg, r) ==
    IF Falsy(msg.orderId)
    THEN /\ sent' = sendLine(NoOutput, sock,
                      [type |-> "error", message |-> "missing_orderId"])
         /\ UNCHANGED <<packages, timers>>
    ELSE LET packageId == makePackageId
             pkg == [packageId |-> packageId,
                     orderId |-> msg.orderId,
                     status |-> "received",
                     assignedVehicle |-> Absent,
                     timestamps |-> ("received" :> nowISO)]
         IN /\ packages' = (packageId :> pkg) @@ packages
            /\ IF ShouldFail(r)
               THEN /\ sent' = sendLine(NoOutput, sock,
                                 [type |-> "error",
                                  message |-> "simulated_receive_failure",
                                  orderId |-> msg.orderId])
                    /\ UNCHANGED timers
               ELSE /\ sent' = sendLine(NoOutput, sock,
                                 [type |-> "ack", status |-> "received",
                                  packageId |-> packageId, orderId |-> msg.orderId])
                    /\ timers' = Append(timers,
                                 [kind |-> "received", pkg |-> packageId,
                                  sock |-> sock, due |-> clock + DEFAULT_DELAY_MS])

\* handleReceivePackage that schedules the ready timer itself, next to the
\* received timer
handleReceivePackageBothTimers(sock, msg, r) ==
    IF Falsy(msg.orderId)
    THEN /\ sent' = sendLine(NoOutput, sock,
                      [type |-> "error", message |-> "missing_orderId"])
         /\ UNCHANGED <<packages, timers>>
    ELSE IF ShouldFail(r)
    THEN /\ sent' = sendLine(NoOutput, sock,
                      [type |-> "error", message |-> "simulated_receive_failure",
                       orderId |-> msg.orderId])
         /\ UNCHANGED <<packages, timers>>
    ELSE LET packageId == makePackageId
             pkg == [packageId |-> packageId,
                     orderId |-> msg.orderId,
                     status |-> "received",
                     assignedVehicle |-> Absent,
                     timestamps |-> ("received" :> nowISO)]
         IN /\ packages' = (packageId :> pkg) @@ packages
            /\ sent' = sendLine(NoOutput, sock,
                         [type |-> "ack", status |-> "received",
                          packageId |-> packageId, orderId |-> msg.orderId])
            /\ timers' = timers \o
                         << [kind |-> "received", pkg |-> packageId, sock |-> sock,
                             due |-> clock + DEFAULT_DELAY_MS],
                            [kind |-> "ready", pkg |-> packageId, sock |-> sock,
                             due |-> clock + DEFAULT_DELAY_MS + PACKAGE_READY_EXTRA_MS] >>

\* handleReceivePackage; r is what Math.random() returns
handleReceivePackage(sock, msg, r) ==
    IF Falsy(msg.orderId)
    THEN /\ sent' = sendLine(NoOutput, sock,
                      [type |-> "error", message |-> "missing_orderId"])
         /\ UNCHANGED <<packages, timers>>
    ELSE IF ShouldFail(r)
    THEN /\ sent' = sendLine(NoOutput, sock,
                      [type |-> "error", message |-> "simulated_receive_failure",
                       orderId |-> msg.orderId])
         /\ UNCHANGED <<packages, timers>>
    ELSE LET packageId == makePackageId
             pkg == [packageId |-> packageId,
                     orderId |-> msg.orderId,
                     status |-> "received",
                     assignedVehicle |-> Absent,
                     timestamps |-> ("received" :> nowISO)]
         IN /\ packages' = (packageId :> pkg) @@ packages
            /\ sent' = sendLine(NoOutput, sock,
                         [type |-> "ack", status |-> "received",
                          packageId |-> packageId, orderId |-> msg.orderId])
            /\ timers' = Append(timers,
                         [kind |-> "received", pkg |-> packageId, sock |-> sock,
                          due |-> clock + DEFAULT_DELAY_MS])

\* handleScanPackage that leaves a package alone once it is loaded or in error
handleScanPackageOpenOnly(sock, msg) ==
    IF Falsy(msg.packageId)
    THEN /\ sent' = sendLine(NoOutput, sock,
                      [type |-> "error", message |-> "missing_packageId"])
         /\ UNCHANGED <<packages, timers>>
    ELSE IF msg.packageId \notin DOMAIN packages
            \/ packages[msg.packageId].status \in {"loaded", "error"}
    THEN /\ sent' = sendLine(NoOutput, sock,
                      [type |-> "error", message |-> "package_not_found"])
         /\ UNCHANGED <<packages, timers>>
    ELSE LET pkg == packages[msg.packageId] IN
         /\ packages' = [packages EXCEPT
                           ![msg.packageId].status = "scanned",
                           ![msg.packageId].timestamps = ("scanned" :> nowISO) @@ @]
         /\ sent' = sendLine(NoOutput, sock,
                      [type |-> "package_scanned", packageId |-> pkg.packageId,
                       orderId |-> pkg.orderId,
                       scanPoint |-> OrElse(msg.scanPoint, "unknown"),
                       timestamp |-> nowISO])
         /\ UNCHANGED timers

\* handleScanPackage that takes the scanned package out of its receive chain
handleScanPackageCancelling(sock, msg) ==
    IF Falsy(msg.packageId)
    THEN /\ sent' = sendLine(NoOutput, sock,
                      [type |-> "error", message |-> "missing_packageId"])
         /\ UNCHANGED <<packages, timers>>
    ELSE IF msg.packageId \notin DOMAIN packages
    THEN /\ sent' = sendLine(NoOutput, sock,
                      [type |-> "error", message |-> "package_not_found"])
         /\ UNCHANGED <<packages, timers>>
    ELSE LET pkg == packages[msg.packageId] IN
         /\ packages' = [packages EXCEPT
                           ![msg.packageId].status = "scanned",
                           ![msg.packageId].timestamps = ("scanned" :> nowISO) @@ @]
         /\ sent' = sendLine(NoOutput, sock,
                      [type |-> "package_scanned", packageId |-> pkg.packageId,
                       orderId |-> pkg.orderId,
                       scanPoint |-> OrElse(msg.scanPoint, "unknown"),
                       timestamp |-> nowISO])
         /\ timers' = SelectSeq(timers,
                         LAMBDA t : ~(t.pkg = msg.packageId /\ t.kind # "load"))

\* handleScanPackage
handleScanPackage(sock, msg) ==
    IF Falsy(msg.packageId)
    THEN /\ sent' = sendLine(NoOutput, sock,
                      [type |-> "error", message |-> "missing_packageId"])
         /\ UNCHANGED <<packages, timers>>
    ELSE IF msg.packageId \notin DOMAIN packages
    THEN /\ sent' = sendLine(NoOutput, sock,
                      [type |-> "error", message |-> "package_not_found"])
         /\ UNCHANGED <<packages, timers>>
    ELSE LET pkg == packages[msg.packageId] IN
         /\ packages' = [packages EXCEPT
                           ![msg.packageId].status = "scanned",
                           ![msg.packageId].timestamps = ("scanned" :> nowISO) @@ @]
         /\ sent' = sendLine(NoOutput, sock,
                      [type |-> "package_scanned", packageId |-> pkg.packageId,
                       orderId |-> pkg.orderId,
                       scanPoint |-> OrElse(msg.scanPoint, "unknown"),
                       timestamp |-> nowISO])
         /\ UNCHANGED timers

\* handleLoadPackage that returns on an unknown package without replying
handleLoadPackageSilent(sock, msg) ==
    IF Falsy(msg.packageId)
    THEN /\ sent' = sendLine(NoOutput, sock,
                      [type |-> "error", message |-> "missing_packageId"])
         /\ UNCHANGED <<packages, timers>>
    ELSE IF msg.packageId \notin DOMAIN packages
    THEN /\ sent' = NoOutput
         /\ UNCHANGED <<packages, timers>>
    ELSE LET vehicleId == OrElse(msg.vehicleId, newVehicleId) IN
         /\ timers' = Append(timers,
                        [kind |-> "load", pkg |-> msg.packageId, sock |-> sock,
                         due |-> clock + DEFAULT_LOAD_DELAY_MS,
                         vehicleId |-> vehicleId])
         /\ sent' = NoOutput
         /\ UNCHANGED packages

\* handleLoadPackage that writes assignedVehicle when it accepts the command
handleLoadPackageAssignEarly(sock, msg) ==
    IF Falsy(msg.packageId)
    THEN /\ sent' = sendLine(NoOutput, sock,
                      [type |-> "error", message |-> "missing_packageId"])
         /\ UNCHANGED <<packages, timers>>
    ELSE IF msg.packageId \notin DOMAIN packages
    THEN /\ sent' = sendLine(NoOutput, sock,
                      [type |-> "error", message |-> "package_not_found"])
         /\ UNCHANGED <<packages, timers>>
    ELSE LET vehicleId == OrElse(msg.vehicleId, newVehicleId) IN
         /\ timers' = Append(timers,
                        [kind |-> "load", pkg |-> msg.packageId, sock |-> sock,
                         due |-> clock + DEFAULT_LOAD_DELAY_MS,
                         vehicleId |-> vehicleId])
         /\ sent' = NoOutput
         /\ packages' = [packages EXCEPT ![msg.packageId].assignedVehicle = vehicleId]

\* handleLoadPackage that refuses a package that is loaded already
handleLoadPackageOnce(sock, msg) ==
    IF Falsy(msg.packageId)
    THEN /\ sent' = sendLine(NoOutput, sock,
                      [type |-> "error", message |-> "missing_packageId"])
         /\ UNCHANGED <<packages, timers>>
    ELSE IF msg.packageId \notin DOMAIN packages
    THEN /\ sent' = sendLine(NoOutput, sock,
                      [type |-> "error", message |-> "package_not_found"])
         /\ UNCHANGED <<packages, timers>>
    ELSE IF packages[msg.packageId].status = "loaded"
    THEN /\ sent' = sendLine(NoOutput, sock,
                      [type |-> "error", message |-> "already_loaded"])
         /\ UNCHANGED <<packages, timers>>
    ELSE LET vehicleId == OrElse(msg.vehicleId, newVehicleId) IN
         /\ timers' = Append(timers,
                        [kind |-> "load", pkg |-> msg.packageId, sock |-> sock,
                         due |-> clock + DEFAULT_LOAD_DELAY_MS,
                         vehicleId |-> vehicleId])
         /\ sent' = NoOutput
         /\ UNCHANGED packages

\* handleLoadPackage
handleLoadPackage(sock, msg) ==
    IF Falsy(msg.packageId)
    THEN /\ sent' = sendLine(NoOutput, sock,
                      [type |-> "error", message |-> "missing_packageId"])
         /\ UNCHANGED <<packages, timers>>
    ELSE IF msg.packageId \notin DOMAIN packages
    THEN /\ sent' = sendLine(NoOutput, sock,
                      [type |-> "error", message |-> "package_not_found"])
         /\ UNCHANGED <<packages, timers>>
    ELSE LET vehicleId == OrElse(msg.vehicleId, newVehicleId) IN
         /\ timers' = Append(timers,
                        [kind |-> "load", pkg |-> msg.packageId, sock |-> sock,
                         due |-> clock + DEFAULT_LOAD_DELAY_MS,
                         vehicleId |-> vehicleId])
         /\ sent' = NoOutput
         /\ UNCHANGED packages

\* simulate_error that also clears the pending timers of the package
simulateErrorClearing(sock, msg) ==
    IF ~Falsy(msg.packageId) /\ msg.packageId \in DOMAIN packages
    THEN LET ev == [type |-> "error", packageId |-> msg.packageId,
                    message |-> OrElse(msg.error, "simulated_error")]
         IN /\ packages' = [packages EXCEPT
                              ![msg.packageId].status = "error",
                              ![msg.packageId].timestamps = ("error" :> nowISO) @@ @]
            /\ sent' = broadcastToAdapters(sendLine(NoOutput, sock, ev), ev)
            /\ timers' = SelectSeq(timers, LAMBDA t : t.pkg # msg.packageId)
    ELSE /\ sent' = sendLine(NoOutput, sock,
                      [type |-> "error", message |-> "package_not_found"])
         /\ UNCHANGED <<packages, timers>>

\* simulate_error without the broadcast
simulateErrorDirectOnly(sock, msg) ==
    IF ~Falsy(msg.packageId) /\ msg.packageId \in DOMAIN packages
    THEN LET ev == [type |-> "error", packageId |-> msg.packageId,
                    message |-> OrElse(msg.error, "simulated_error")]
         IN /\ packages' = [packages EXCEPT
                              ![msg.packageId].status = "error",
                              ![msg.packageId].timestamps = ("error" :> nowISO) @@ @]
            /\ sent' = sendLine(NoOutput, sock, ev)
            /\ UNCHANGED timers
    ELSE /\ sent' = sendLine(NoOutput, sock,
                      [type |-> "error", message |-> "package_not_found"])
         /\ UNCHANGED <<packages, timers>>

\* simulate_error that broadcasts its package_not_found error as well
simulateErrorBroadcastNotFound(sock, msg) ==
    IF ~Falsy(msg.packageId) /\ msg.packageId \in DOMAIN packages
    THEN LET ev == [type |-> "error", packageId |-> msg.packageId,
                    message |-> OrElse(msg.error, "simulated_error")]
         IN /\ packages' = [packages EXCEPT
                              ![msg.packageId].status = "error",
                              ![msg.packageId].timestamps = ("error" :> nowISO) @@ @]
            /\ sent' = broadcastToAdapters(sendLine(NoOutput, sock, ev), ev)
            /\ UNCHANGED timers
    ELSE LET ev == [type |-> "error", message |-> "package_not_found"]
         IN /\ sent' = broadcastToAdapters(sendLine(NoOutput, sock, ev), ev)
            /\ UNCHANGED <<packages, timers>>

\* simulate_error that replaces the timestamps object by one holding only error
simulateErrorResetting(sock, msg) ==
    IF ~Falsy(msg.packageId) /\ msg.packageId \in DOMAIN packages
    THEN LET ev == [type |-> "error", packageId |-> msg.packageId,
                    message |-> OrElse(msg.error, "simulated_error")]
         IN /\ packages' = [packages EXCEPT
                              ![msg.packageId].status = "error",
                              ![msg.packageId].timestamps = ("error" :> nowISO)]
            /\ sent' = broadcastToAdapters(sendLine(NoOutput, sock, ev), ev)
            /\ UNCHANGED timers
    ELSE /\ sent' = sendLine(NoOutput, sock,
                      [type |-> "error", message |-> "package_not_found"])
         /\ UNCHANGED <<packages, timers>>

\* simulate_error that leaves the originator out of the broadcast
simulateErrorOthersOnly(sock, msg) ==
    IF ~Falsy(msg.packageId) /\ msg.packageId \in DOMAIN packages
    THEN LET ev == [type |-> "error", packageId |-> msg.packageId,
                    message |-> OrElse(msg.error, "simulated_error")]
             out == broadcastToAdapters(NoOutput, ev)
         IN /\ packages' = [packages EXCEPT
                              ![msg.packageId].status = "error",
                              ![msg.packageId].timestamps = ("error" :> nowISO) @@ @]
            /\ sent' = [out EXCEPT ![sock] = IF sockets[sock] = "open"
                                             THEN <<ev>> ELSE @]
            /\ UNCHANGED timers
    ELSE /\ sent' = sendLine(NoOutput, sock,
                      [type |-> "error", message |-> "package_not_found"])
         /\ UNCHANGED <<packages, timers>>

\* handleTcpMessage: case 'simulate_error'
simulateError(sock, msg) ==
    IF ~Falsy(msg.packageId) /\ msg.packageId \in DOMAIN packages
    THEN LET ev == [type |-> "error", packageId |-> msg.packageId,
                    message |-> OrElse(msg.error, "simulated_error")]
         IN /\ packages' = [packages EXCEPT
                              ![msg.packageId].status = "error",
                              ![msg.packageId].timestamps = ("error" :> nowISO) @@ @]
            /\ sent' = broadcastToAdapters(sendLine(NoOutput, sock, ev), ev)
            /\ UNCHANGED timers
    ELSE /\ sent' = sendLine(NoOutput, sock,
                      [type |-> "error", message |-> "package_not_found"])
         /\ UNCHANGED <<packages, timers>>

\* handleTcpMessage with a default branch that only logs
handleTcpMessageQuietDefault(sock, msg, r) ==
    /\ UNCHANGED sockets
    /\ IF Falsy(msg.type)
       THEN /\ sent' = sendLine(NoOutput, sock,
                         [type |-> "error", message |-> "missing_type"])
            /\ UNCHANGED <<adapterId, adapters, packages, timers>>
       ELSE IF msg.type = "register_adapter"
       THEN registerAdapter(sock, msg)
       ELSE /\ UNCHANGED <<adapterId, adapters>>
            /\ CASE msg.type = "receive_package" -> handleReceivePackage(sock, msg, r)
                 [] msg.type = "scan_package" -> handleScanPackage(sock, msg)
                 [] msg.type = "load_package" -> handleLoadPackage(sock, msg)
                 [] msg.type = "simulate_error" -> simulateError(sock, msg)
                 [] OTHER ->
                      /\ sent' = NoOutput
                      /\ UNCHANGED <<packages, timers>>

\* handleTcpMessage: the dispatch on msg.type
handleTcpMessage(sock, msg, r) ==
    /\ UNCHANGED sockets
    /\ IF Falsy(msg.type)
       THEN /\ sent' = sendLine(NoOutput, sock,
                         [type |-> "error", message |-> "missing_type"])
            /\ UNCHANGED <<adapterId, adapters, packages, timers>>
       ELSE IF msg.type = "register_adapter"
       THEN registerAdapter(sock, msg)
       ELSE /\ UNCHANGED <<adapterId, adapters>>
            /\ CASE msg.type = "receive_package" -> handleReceivePackage(sock, msg, r)
                 [] msg.type = "scan_package" -> handleScanPackage(sock, msg)
                 [] msg.type = "load_package" -> handleLoadPackage(sock, msg)
                 [] msg.type = "simulate_error" -> simulateError(sock, msg)
                 [] OTHER ->
                      /\ sent' = sendLine(NoOutput, sock,
                                   [type |-> "error", message |-> "unknown_type",
                                    received |-> msg.type])
                      /\ UNCHANGED <<packages, timers>>

\* ------------------------------------------------------ inbound messages
PackageIdsNamed == DOMAIN packages \cup {"pkg-unknown", Absent}

RegisterMessages ==
    {[type |-> "register_adapter", adapterId |-> a] :
        a \in AdapterIdsSupplied \cup {Absent}}
ReceiveMessages ==
    {[type |-> "receive_package", orderId |-> o] : o \in OrderIds \cup {Absent}}
ScanMessages ==
    {[type |-> "scan_package", packageId |-> p, scanPoint |-> Absent] :
        p \in PackageIdsNamed}
LoadMessages ==
    {[type |-> "load_package", packageId |-> p, vehicleId |-> v] :
        p \in DOMAIN packages, v \in VehicleIds \cup {Absent}}
    \cup {[type |-> "load_package", packageId |-> p, vehicleId |-> Absent] :
        p \in {"pkg-unknown", Absent}}
SimulateErrorMessages ==
    {[type |-> "simulate_error", packageId |-> p, error |-> Absent] :
        p \in PackageIdsNamed}
OtherMessages == {[type |-> t] : t \in {Absent, "ping"}}
Messages ==
    RegisterMessages \cup ReceiveMessages \cup ScanMessages \cup LoadMessages
        \cup SimulateErrorMessages \cup OtherMessages

\* a line of the stream, trimmed: blank, or text that JSON.parse decodes to
\* value, or text it throws on
Null == [null |-> TRUE]
BlankLine == [blank |-> TRUE, json |-> FALSE, value |-> Null]
NotJsonLine == [blank |-> FALSE, json |-> FALSE, value |-> Null]
JsonLines == {[blank |-> FALSE, json |-> TRUE, value |-> v] : v \in Messages \cup {Null}}
Lines == JsonLines \cup {NotJsonLine, BlankLine}
\* what one data event appends to the buffer: some complete lines
Chunks == UNION {[1..n -> Lines] : n \in 1..MaxLines}

tryParseJson(line) == IF line.json THEN line.value ELSE Null

\* the part of the state no inbound line and no timer changes
Frame == UNCHANGED <<errorMode, ERROR_RATE, clock, idVars, streamVars, rosVars, cmsVars>>
\* no while loop of a data handler is under way
Idle == \A s \in Sockets : buffer[s] = <<>>

\* -------------------------------------------------------------- the steps
\* a client connects: sockets are numbered in the order they are accepted
Connect(s) ==
    /\ Idle
    /\ requests < MaxRequests
    /\ \A o \in Sockets : o < s => sockets[o] # "unconnected"
    /\ connection(s)
    /\ requests' = requests + 1
    /\ sent' = NoOutput
    /\ last' = [op |-> "connection", sock |-> s]
    /\ UNCHANGED buffer
    /\ Frame

Close(s) ==
    /\ Idle
    /\ onClose(s)
    /\ sent' = NoOutput
    /\ last' = [op |-> "close", sock |-> s]
    /\ UNCHANGED <<buffer, requests>>
    /\ Frame

\* the loop body with a socket that is destroyed on a line that does not decode
LineStrict(s, line, r) ==
    /\ IF line.blank
       THEN /\ sent' = NoOutput
            /\ last' = [op |-> "line", sock |-> s, line |-> line]
            /\ UNCHANGED <<sockets, adapterId, adapters, packages, timers>>
       ELSE IF tryParseJson(line) = Null
       THEN /\ sent' = sendLine(NoOutput, s,
                         [type |-> "error", message |-> "invalid_json"])
            /\ last' = [op |-> "line", sock |-> s, line |-> line]
            /\ sockets' = [sockets EXCEPT ![s] = "destroyed"]
            /\ UNCHANGED <<adapterId, adapters, packages, timers>>
       ELSE /\ handleTcpMessage(s, tryParseJson(line), r)
            /\ last' = [op |-> "message", sock |-> s, msg |-> tryParseJson(line),
                        draw |-> r]
    /\ Frame

\* socket.on('data'), the body of the while loop: one line is taken off the
\* buffer, skipped if blank, answered with invalid_json if it does not decode
\* to a truthy value, and handed to handleTcpMessage otherwise; r is what
\* Math.random() returns if the handler calls it
Line(s, line, r) ==
    /\ IF line.blank
       THEN /\ sent' = NoOutput
            /\ last' = [op |-> "line", sock |-> s, line |-> line]
            /\ UNCHANGED <<sockets, adapterId, adapters, packages, timers>>
       ELSE IF tryParseJson(line) = Null
       THEN /\ sent' = sendLine(NoOutput, s,
                         [type |-> "error", message |-> "invalid_json"])
            /\ last' = [op |-> "line", sock |-> s, line |-> line]
            /\ UNCHANGED <<sockets, adapterId, adapters, packages, timers>>
       ELSE /\ handleTcpMessage(s, tryParseJson(line), r)
            /\ last' = [op |-> "message", sock |-> s, msg |-> tryParseJson(line),
                        draw |-> r]
    /\ Frame

\* what Math.random() can return to the handler of a line
DrawsFor(line) ==
    IF line.json /\ line.value # Null /\ line.value.type = "receive_package"
    THEN RandomDraws
    ELSE {0}

\* socket.on('data'): a chunk completes some lines; the loop dispatches the
\* first of them
Data(s) ==
    /\ Idle
    /\ sockets[s] = "open"
    /\ \E chunk \in Chunks :
          /\ requests + Len(chunk) <= MaxRequests
          /\ \E r \in DrawsFor(chunk[1]) : Line(s, chunk[1], r)
          /\ buffer' = [buffer EXCEPT ![s] = Tail(chunk)]
          /\ requests' = requests + Len(chunk)

\* socket.on('data'): the loop goes round again, before anything else runs
NextLine(s) ==
    /\ buffer[s] # <<>>
    /\ \E r \in DrawsFor(Head(buffer[s])) : Line(s, Head(buffer[s]), r)
    /\ buffer' = [buffer EXCEPT ![s] = Tail(@)]
    /\ UNCHANGED requests

\* ------------------------------------------------------------------ timers
\* Each callback runs with the closure it was created in (pkg, sock, vehicleId);
\* running it takes it off the pending list.

\* receivedTimer with its event handed to broadcastToAdapters, as the admin
\* endpoints hand theirs, instead of to the socket of the closure
receivedTimerBroadcast(i) ==
    LET t == timers[i]
        ev == [type |-> "package_received", packageId |-> t.pkg,
               orderId |-> packages[t.pkg].orderId, status |-> "received",
               timestamp |-> nowISO]
    IN /\ packages' = [packages EXCEPT
                         ![t.pkg].status = "received",
                         ![t.pkg].timestamps = ("received" :> nowISO) @@ @]
       /\ sent' = broadcastToAdapters(NoOutput, ev)
       /\ timers' = Append(RemoveAt(timers, i),
                      [kind |-> "ready", pkg |-> t.pkg, sock |-> t.sock,
                       due |-> clock + PACKAGE_READY_EXTRA_MS])

\* receivedTimer that updates every package of the order of its package
receivedTimerByOrder(i) ==
    LET t == timers[i]
        ev == [type |-> "package_received", packageId |-> t.pkg,
               orderId |-> packages[t.pkg].orderId, status |-> "received",
               timestamp |-> nowISO]
    IN /\ packages' =
             [p \in DOMAIN packages |->
                 IF packages[p].orderId = packages[t.pkg].orderId
                 THEN [packages[p] EXCEPT
                         !.status = "received",
                         !.timestamps = ("received" :> nowISO) @@ @]
                 ELSE packages[p]]
       /\ sent' = sendLine(NoOutput, t.sock, ev)
       /\ timers' = Append(RemoveAt(timers, i),
                      [kind |-> "ready", pkg |-> t.pkg, sock |-> t.sock,
                       due |-> clock + PACKAGE_READY_EXTRA_MS])

\* receivedTimer with its event addressed to the adapter identity of the
\* connection of its closure, through sendToAdapterById, instead of to the
\* socket itself
receivedTimerByIdentity(i) ==
    LET t == timers[i]
        ev == [type |-> "package_received", packageId |-> t.pkg,
               orderId |-> packages[t.pkg].orderId, status |-> "received",
               timestamp |-> nowISO]
    IN /\ packages' = [packages EXCEPT
                         ![t.pkg].status = "received",
                         ![t.pkg].timestamps = ("received" :> nowISO) @@ @]
       /\ sent' = IF Falsy(adapterId[t.sock])
                  THEN sendLine(NoOutput, t.sock, ev)
                  ELSE sendToAdapterById(NoOutput, adapterId[t.sock], ev)
       /\ timers' = Append(RemoveAt(timers, i),
                      [kind |-> "ready", pkg |-> t.pkg, sock |-> t.sock,
                       due |-> clock + PACKAGE_READY_EXTRA_MS])

\* receivedTimer that leaves alone a package that has moved on since its ack
receivedTimerGuarded(i) ==
    LET t == timers[i]
        ev == [type |-> "package_received", packageId |-> t.pkg,
               orderId |-> packages[t.pkg].orderId, status |-> "received",
               timestamp |-> nowISO]
    IN /\ packages' = IF packages[t.pkg].status = "received"
                      THEN [packages EXCEPT
                              ![t.pkg].timestamps = ("received" :> nowISO) @@ @]
                      ELSE packages
       /\ sent' = sendLine(NoOutput, t.sock, ev)
       /\ timers' = Append(RemoveAt(timers, i),
                      [kind |-> "ready", pkg |-> t.pkg, sock |-> t.sock,
                       due |-> clock + PACKAGE_READY_EXTRA_MS])

\* the callback handleReceivePackage schedules
receivedTimer(i) ==
    LET t == timers[i]
        ev == [type |-> "package_received", packageId |-> t.pkg,
               orderId |-> packages[t.pkg].orderId, status |-> "received",
               timestamp |-> nowISO]
    IN /\ packages' = [packages EXCEPT
                         ![t.pkg].status = "received",
                         ![t.pkg].timestamps = ("received" :> nowISO) @@ @]
       /\ sent' = sendLine(NoOutput, t.sock, ev)
       /\ timers' = Append(RemoveAt(timers, i),
                      [kind |-> "ready", pkg |-> t.pkg, sock |-> t.sock,
                       due |-> clock + PACKAGE_READY_EXTRA_MS])

\* readyTimer without its failure test
readyTimerUnchecked(i, r) ==
    LET t == timers[i] IN
    /\ timers' = RemoveAt(timers, i)
    /\ packages' = [packages EXCEPT
                      ![t.pkg].status = "ready_for_loading",
                      ![t.pkg].timestamps = ("ready" :> nowISO) @@ @]
    /\ sent' = sendLine(NoOutput, t.sock,
                 [type |-> "package_ready", packageId |-> t.pkg,
                  orderId |-> packages[t.pkg].orderId,
                  status |-> "ready_for_loading", timestamp |-> nowISO])

\* readyTimer without the return that ends its failure branch
readyTimerFallThrough(i, r) ==
    LET t == timers[i]
        errEv == [type |-> "error", packageId |-> t.pkg,
                  orderId |-> packages[t.pkg].orderId,
                  message |-> "simulated_processing_error"]
        readyEv == [type |-> "package_ready", packageId |-> t.pkg,
                    orderId |-> packages[t.pkg].orderId,
                    status |-> "ready_for_loading", timestamp |-> nowISO]
    IN /\ timers' = RemoveAt(timers, i)
       /\ IF ShouldFail(r)
          THEN /\ packages' = [packages EXCEPT
                                 ![t.pkg].status = "ready_for_loading",
                                 ![t.pkg].timestamps =
                                    ("ready" :> nowISO) @@ ("error" :> nowISO) @@ @]
               /\ sent' = sendLine(sendLine(NoOutput, t.sock, errEv), t.sock, readyEv)
          ELSE /\ packages' = [packages EXCEPT
                                 ![t.pkg].status = "ready_for_loading",
                                 ![t.pkg].timestamps = ("ready" :> nowISO) @@ @]
               /\ sent' = sendLine(NoOutput, t.sock, readyEv)

\* readyTimer that stamps the package with the time it was scheduled at
readyTimerStampAtSchedule(i, r) ==
    LET t == timers[i]
        scheduledAt == t.due - PACKAGE_READY_EXTRA_MS
    IN /\ timers' = RemoveAt(timers, i)
       /\ IF ShouldFail(r)
          THEN /\ packages' = [packages EXCEPT
                                 ![t.pkg].status = "error",
                                 ![t.pkg].timestamps = ("error" :> scheduledAt) @@ @]
               /\ sent' = sendLine(NoOutput, t.sock,
                            [type |-> "error", packageId |-> t.pkg,
                             orderId |-> packages[t.pkg].orderId,
                             message |-> "simulated_processing_error"])
          ELSE /\ packages' = [packages EXCEPT
                                 ![t.pkg].status = "ready_for_loading",
                                 ![t.pkg].timestamps = ("ready" :> scheduledAt) @@ @]
               /\ sent' = sendLine(NoOutput, t.sock,
                            [type |-> "package_ready", packageId |-> t.pkg,
                             orderId |-> packages[t.pkg].orderId,
                             status |-> "ready_for_loading", timestamp |-> scheduledAt])

\* the callback the received callback schedules
readyTimer(i, r) ==
    LET t == timers[i] IN
    /\ timers' = RemoveAt(timers, i)
    /\ IF ShouldFail(r)
       THEN /\ packages' = [packages EXCEPT
                              ![t.pkg].status = "error",
                              ![t.pkg].timestamps = ("error" :> nowISO) @@ @]
            /\ sent' = sendLine(NoOutput, t.sock,
                         [type |-> "error", packageId |-> t.pkg,
                          orderId |-> packages[t.pkg].orderId,
                          message |-> "simulated_processing_error"])
       ELSE /\ packages' = [packages EXCEPT
                              ![t.pkg].status = "ready_for_loading",
                              ![t.pkg].timestamps = ("ready" :> nowISO) @@ @]
            /\ sent' = sendLine(NoOutput, t.sock,
                         [type |-> "package_ready", packageId |-> t.pkg,
                          orderId |-> packages[t.pkg].orderId,
                          status |-> "ready_for_loading", timestamp |-> nowISO])

\* loadTimer that never writes assignedVehicle
loadTimerUnassigned(i, r) ==
    LET t == timers[i] IN
    /\ timers' = RemoveAt(timers, i)
    /\ IF ShouldFail(r)
       THEN /\ packages' = [packages EXCEPT
                              ![t.pkg].status = "error",
                              ![t.pkg].timestamps = ("error" :> nowISO) @@ @]
            /\ sent' = sendLine(NoOutput, t.sock,
                         [type |-> "error", packageId |-> t.pkg,
                          orderId |-> packages[t.pkg].orderId,
                          message |-> "simulated_load_error"])
       ELSE /\ packages' = [packages EXCEPT
                              ![t.pkg].status = "loaded",
                              ![t.pkg].timestamps = ("loaded" :> nowISO) @@ @]
            /\ sent' = sendLine(NoOutput, t.sock,
                         [type |-> "package_loaded", packageId |-> t.pkg,
                          orderId |-> packages[t.pkg].orderId,
                          vehicleId |-> t.vehicleId, status |-> "loaded",
                          timestamp |-> nowISO])

\* loadTimer that writes assignedVehicle before its failure test
loadTimerAssignFirst(i, r) ==
    LET t == timers[i] IN
    /\ timers' = RemoveAt(timers, i)
    /\ IF ShouldFail(r)
       THEN /\ packages' = [packages EXCEPT
                              ![t.pkg].status = "error",
                              ![t.pkg].assignedVehicle = t.vehicleId,
                              ![t.pkg].timestamps = ("error" :> nowISO) @@ @]
            /\ sent' = sendLine(NoOutput, t.sock,
                         [type |-> "error", packageId |-> t.pkg,
                          orderId |-> packages[t.pkg].orderId,
                          message |-> "simulated_load_error"])
       ELSE /\ packages' = [packages EXCEPT
                              ![t.pkg].status = "loaded",
                              ![t.pkg].assignedVehicle = t.vehicleId,
                              ![t.pkg].timestamps = ("loaded" :> nowISO) @@ @]
            /\ sent' = sendLine(NoOutput, t.sock,
                         [type |-> "package_loaded", packageId |-> t.pkg,
                          orderId |-> packages[t.pkg].orderId,
                          vehicleId |-> t.vehicleId, status |-> "loaded",
                          timestamp |-> nowISO])

\* the callback handleLoadPackage schedules
loadTimer(i, r) ==
    LET t == timers[i] IN
    /\ timers' = RemoveAt(timers, i)
    /\ IF ShouldFail(r)
       THEN /\ packages' = [packages EXCEPT
                              ![t.pkg].status = "error",
                              ![t.pkg].timestamps = ("error" :> nowISO) @@ @]
            /\ sent' = sendLine(NoOutput, t.sock,
                         [type |-> "error", packageId |-> t.pkg,
                          orderId |-> packages[t.pkg].orderId,
                          message |-> "simulated_load_error"])
       ELSE /\ packages' = [packages EXCEPT
                              ![t.pkg].status = "loaded",
                              ![t.pkg].assignedVehicle = t.vehicleId,
                              ![t.pkg].timestamps = ("loaded" :> nowISO) @@ @]
            /\ sent' = sendLine(NoOutput, t.sock,
                         [type |-> "package_loaded", packageId |-> t.pkg,
                          orderId |-> packages[t.pkg].orderId,
                          vehicleId |-> t.vehicleId, status |-> "loaded",
                          timestamp |-> nowISO])

\* a pending callback runs once its delay has elapsed; r is what Math.random()
\* returns if the callback calls it
TimerStep(i, r) ==
    /\ Idle
    /\ timers[i].due <= clock
    /\ last' = [op |-> "timer", timer |-> timers[i], draw |-> r]
    /\ UNCHANGED <<sockets, adapterId, adapters, buffer, requests>>
    /\ Frame

FireReceived(i) ==
    /\ timers[i].kind = "received"
    /\ receivedTimer(i)
    /\ TimerStep(i, 0)

FireReady(i) ==
    /\ timers[i].kind = "ready"
    /\ \E r \in RandomDraws : readyTimer(i, r) /\ TimerStep(i, r)

FireLoad(i) ==
    /\ timers[i].kind = "load"
    /\ \E r \in RandomDraws : loadTimer(i, r) /\ TimerStep(i, r)

\* the wall clock advances once every timer that is due has fired.  Time is
\* let pass only while a timer is pending: with none pending nothing in the
\* server depends on how long it waits.
Tick ==
    /\ Idle
    /\ timers # <<>>
    /\ \A i \in 1..Len(timers) : timers[i].due > clock
    /\ clock' = clock + 1
    /\ sent' = NoOutput
    /\ last' = [op |-> "tick"]
    /\ UNCHANGED <<sockets, adapterId, adapters, packages, timers, errorMode,
                   ERROR_RATE, buffer, requests, idVars, streamVars, rosVars,
                   cmsVars>>

\* POST /api/simulate/fail {"fail": fail}, the only writer of errorMode.  The
\* README of the server documents the endpoint; in index.js the handler's
\* text stands commented out.
simulateFail(fail) ==
    /\ errorMode' = fail

\* a request that leaves the flag as it is changes nothing and is left out
SimulateFail(fail) ==
    /\ Idle
    /\ requests < MaxRequests
    /\ fail # errorMode
    /\ simulateFail(fail)
    /\ requests' = requests + 1
    /\ sent' = NoOutput
    /\ last' = [op |-> "simulate_fail", fail |-> fail]
    /\ UNCHANGED <<sockets, adapterId, adapters, packages, timers, ERROR_RATE, clock,
                   buffer, idVars, streamVars, rosVars, cmsVars>>

\* -------------------------------------------------------------------- Next
Next ==
    \/ \E s \in Sockets : Connect(s)
    \/ \E s \in Sockets : Close(s)
    \/ \E s \in Sockets : Data(s)
    \/ \E s \in Sockets : NextLine(s)
    \/ \E i \in 1..Len(timers) : FireReceived(i)
    \/ \E i \in 1..Len(timers) : FireReady(i)
    \/ \E i \in 1..Len(timers) : FireLoad(i)
    \/ Tick
    \/ \E b \in BOOLEAN : SimulateFail(b)

Spec == Init /\ [][Next]_vars

\* ------------------------------------------- the identities of packages
\* A uuid is its first group of eight hex digits and the rest.  uuidv4() is
\* taken never to return the same uuid twice; two uuids can share the first
\* group.
MaxHeads == 2
MaxTails == 3
\* the calls of makePackageId followed
MaxIssued == 3
Uuids == [head : 1..MaxHeads, tail : 1..MaxTails]

\* makePackageId, given the uuid that uuidv4() returns to shortId:
\* 'pkg-' + uuid.split('-')[0]
makePackageIdOf(u) == "pkg-" \o shortId(u.head)

\* handleReceivePackage from makePackageId() to packages.set(): the package
\* is stored under the identity made of the uuid u
allocatePackage(u, orderId) ==
    LET packageId == makePackageIdOf(u)
        pkg == [packageId |-> packageId,
                orderId |-> orderId,
                status |-> "received",
                assignedVehicle |-> Absent,
                timestamps |-> ("received" :> nowISO)]
    IN /\ packages' = (packageId :> pkg) @@ packages
       /\ issued' = Append(issued, packageId)

Allocate(u) ==
    /\ Len(issued) < MaxIssued
    /\ u \notin uuids
    /\ uuids' = uuids \cup {u}
    /\ \E o \in OrderIds : allocatePackage(u, o)
    /\ sent' = NoOutput
    /\ last' = [op |-> "allocate", uuid |-> u]
    /\ UNCHANGED <<sockets, adapterId, adapters, timers, errorMode, ERROR_RATE,
                   clock, buffer, requests, streamVars, rosVars, cmsVars>>

IdNext == \E u \in Uuids : Allocate(u)

IdSpec == Init /\ [][IdNext]_vars

\* ------------------------------------------- the framing of one connection
\* The data handler at the level of characters: a visible character, a blank
\* and the line terminator.  No line made of these parses as JSON, so every
\* line that is dispatched is answered with invalid_json.
MaxStream == 5
Chars == {"x", " ", "\n"}
CharChunks == UNION {[1..n -> Chars] : n \in 1..MaxStream}

\* buffer.indexOf(c), counted from 1; 0 where JavaScript returns -1
indexOf(str, c) ==
    IF \E i \in 1..Len(str) : str[i] = c
    THEN CHOOSE i \in 1..Len(str) :
            str[i] = c /\ \A j \in 1..(i - 1) : str[j] # c
    ELSE 0

\* String.prototype.trim
RECURSIVE trimStart(_)
trimStart(str) ==
    IF str # <<>> /\ str[1] = " " THEN trimStart(Tail(str)) ELSE str
RECURSIVE trimEnd(_)
trimEnd(str) ==
    IF str # <<>> /\ str[Len(str)] = " "
    THEN trimEnd(SubSeq(str, 1, Len(str) - 1))
    ELSE str
trim(str) == trimEnd(trimStart(str))

\* the while loop of the data handler: what is left in the buffer and the
\* lines passed on, in order
RECURSIVE whileLoop(_, _)
whileLoop(buf, lines) ==
    LET idx == indexOf(buf, "\n") IN
    IF idx = 0
    THEN [buffer |-> buf, lines |-> lines]
    ELSE LET line == trim(SubSeq(buf, 1, idx - 1))
             rest == SubSeq(buf, idx + 1, Len(buf))
         IN IF line = <<>>
            THEN whileLoop(rest, lines)
            ELSE whileLoop(rest, Append(lines, line))

\* a data handler that starts from the chunk alone
onDataForgetful(buf, chunk) == whileLoop(chunk, <<>>)

\* socket.on('data'): buffer += chunk, then the loop
onData(buf, chunk) == whileLoop(buf \o chunk, <<>>)

\* one connection is open and nothing has arrived on it
FramingInit ==
    /\ sockets = [s \in Sockets |-> IF s = 1 THEN "open" ELSE "unconnected"]
    /\ adapterId = [s \in Sockets |-> Absent]
    /\ adapters = <<>>
    /\ packages = <<>>
    /\ timers = <<>>
    /\ errorMode = FALSE
    /\ ERROR_RATE \in Rates
    /\ clock = 0
    /\ buffer = [s \in Sockets |-> <<>>]
    /\ requests = 1
    /\ uuids = {}
    /\ issued = <<>>
    /\ arrived = <<>>
    /\ bufferChars = <<>>
    /\ dispatched = <<>>
    /\ RosInit
    /\ CmsInit
    /\ sent = NoOutput
    /\ last = [op |-> "connection", sock |-> 1]

\* a chunk arrives on the connection: each line the loop passes on fails to
\* parse and is answered with invalid_json
DataChars(chunk) ==
    /\ Len(arrived) + Len(chunk) <= MaxStream
    /\ arrived' = arrived \o chunk
    /\ LET r == onData(bufferChars, chunk) IN
       /\ bufferChars' = r.buffer
       /\ dispatched' = dispatched \o r.lines
       /\ sent' = [NoOutput EXCEPT
                     ![1] = [k \in 1..Len(r.lines) |->
                               [type |-> "error", message |-> "invalid_json"]]]
    /\ last' = [op |-> "data", sock |-> 1, chunk |-> chunk]
    /\ UNCHANGED <<sockets, adapterId, adapters, packages, timers, errorMode,
                   ERROR_RATE, clock, buffer, requests, idVars, rosVars, cmsVars>>

FramingNext == \E chunk \in CharChunks : DataChars(chunk)

FramingSpec == FramingInit /\ [][FramingNext]_vars

\* ------------------------------------------------------------- properties
\* what the step that led to the current state was
LastIsMessage(type) == last.op = "message" /\ last.msg.type = type
LastIsTimer(kind) == last.op = "timer" /\ last.timer.kind = kind

\* the step wrote ev to socket s once and wrote nothing else to any socket
Only(s, ev) == [x \in Sockets |-> IF x = s THEN <<ev>> ELSE <<>>]
\* the same, but nothing at all if the socket is not open in socks
OnlyIfOpen(socks, s, ev) == IF socks[s] = "open" THEN Only(s, ev) ELSE NoOutput
\* the events among the output out that went to socket s, and to any socket
EventsTo(out, s) == {out[s][k] : k \in 1..Len(out[s])}
EventsWritten(out) == UNION {EventsTo(out, s) : s \in Sockets}
\* the output out is one error event to socket s and nothing else
ErrorOnly(out, s) ==
    \E e \in EventsTo(out, s) : e.type = "error" /\ out = Only(s, e)

\* the events of the package lifecycle, as the handlers build them from the
\* store pkgs at time now
AckEvent(pkgs, p) ==
    [type |-> "ack", status |-> "received", packageId |-> p,
     orderId |-> pkgs[p].orderId]
ReceivedEvent(pkgs, p, now) ==
    [type |-> "package_received", packageId |-> p,
     orderId |-> pkgs[p].orderId, status |-> "received", timestamp |-> now]
ReadyEvent(pkgs, p, now) ==
    [type |-> "package_ready", packageId |-> p,
     orderId |-> pkgs[p].orderId, status |-> "ready_for_loading",
     timestamp |-> now]
LoadedEvent(pkgs, p, v, now) ==
    [type |-> "package_loaded", packageId |-> p,
     orderId |-> pkgs[p].orderId, vehicleId |-> v, status |-> "loaded",
     timestamp |-> now]

\* the timers, among the pending timers ts, of the chain a receive_package
\* started for package p
ReceiveChain(ts, p) ==
    {i \in 1..Len(ts) : ts[i].pkg = p /\ ts[i].kind \in {"received", "ready"}}

NoInjection == ~errorMode /\ ERROR_RATE = 0
AcceptedReceive == LastIsMessage("receive_package") /\ ~Falsy(last.msg.orderId)

\* C1 as the specification states it: with forced failure off and failure
\* rate 0, an accepted receive_package writes exactly one ack to its
\* connection, its received timer exactly one package_received and its ready
\* timer exactly one package_ready to that same connection, and while the
\* chain runs that connection is written no error event naming the package.
C1_AsClaimed ==
    NoInjection =>
        /\ AcceptedReceive =>
              \E p \in DOMAIN packages : sent = Only(last.sock, AckEvent(packages, p))
        /\ LastIsTimer("received") =>
              sent = Only(last.timer.sock, ReceivedEvent(packages, last.timer.pkg, clock))
        /\ LastIsTimer("ready") =>
              sent = Only(last.timer.sock, ReadyEvent(packages, last.timer.pkg, clock))
        /\ \A i \in 1..Len(timers) :
              timers[i].kind \in {"received", "ready"} =>
                 \A e \in EventsTo(sent, timers[i].sock) :
                    ~(e.type = "error" /\ "packageId" \in DOMAIN e
                        /\ e.packageId = timers[i].pkg)

\* C1, amended: with forced failure off and failure rate 0, an accepted
\* receive_package creates one package, writes exactly one ack to its
\* connection and starts one received timer; that timer, when it fires,
\* writes exactly one package_received to the connection if it is still open
\* (nothing if it has closed) and starts one ready timer, which in turn
\* writes exactly one package_ready under the same condition and ends the
\* chain.  ack, package_received and package_ready are written by no other
\* step, a chain never holds more than one pending timer and never restarts,
\* and an error event naming a package is written only by a simulate_error
\* command that names it.
C1_Step ==
    NoInjection =>
        /\ AcceptedReceive' =>
              \E p \in DOMAIN packages' \ DOMAIN packages :
                 /\ sent' = Only(last'.sock, AckEvent(packages', p))
                 /\ timers' = Append(timers,
                        [kind |-> "received", pkg |-> p, sock |-> last'.sock,
                         due |-> clock + DEFAULT_DELAY_MS])
        /\ LastIsTimer("received")' =>
              LET t == last'.timer IN
              /\ sent' = OnlyIfOpen(sockets', t.sock, ReceivedEvent(packages', t.pkg, clock'))
              /\ \E i \in 1..Len(timers') :
                    /\ ReceiveChain(timers', t.pkg) = {i}
                    /\ timers'[i] = [kind |-> "ready", pkg |-> t.pkg, sock |-> t.sock,
                                     due |-> clock + PACKAGE_READY_EXTRA_MS]
        /\ LastIsTimer("ready")' =>
              LET t == last'.timer IN
              /\ sent' = OnlyIfOpen(sockets', t.sock, ReadyEvent(packages', t.pkg, clock'))
              /\ ReceiveChain(timers', t.pkg) = {}
        /\ \A e \in EventsWritten(sent') :
              /\ e.type = "ack" => AcceptedReceive'
              /\ e.type = "package_received" =>
                    LastIsTimer("received")' /\ last'.timer.pkg = e.packageId
              /\ e.type = "package_ready" =>
                    LastIsTimer("ready")' /\ last'.timer.pkg = e.packageId
              /\ (e.type = "error" /\ "packageId" \in DOMAIN e) =>
                    LastIsMessage("simulate_error")' /\ last'.msg.packageId = e.packageId
        /\ \A p \in DOMAIN packages :
              /\ Cardinality(ReceiveChain(timers, p)) <= 1
              /\ Cardinality(ReceiveChain(timers', p)) <= Cardinality(ReceiveChain(timers, p))
              /\ (ReceiveChain(timers', p) # {} /\ ~LastIsTimer("received")') =>
                    \E i \in ReceiveChain(timers, p), j \in ReceiveChain(timers', p) :
                       timers'[j] = timers[i]
\* C1, amended, stated of every step of every behaviour
C1_Amended == [][C1_Step]_vars

\* a ready timer has just written package_ready to the connection that sent
\* the receive_package, with no failure injected
C1_Witness ==
    /\ NoInjection
    /\ LastIsTimer("ready")
    /\ packages[last.timer.pkg].status = "ready_for_loading"
    /\ sent = Only(last.timer.sock, ReadyEvent(packages, last.timer.pkg, clock))

\* C2: while errorMode is on, every receive_package is answered by one error
\* event and creates no package (and starts no timer), every ready timer that
\* fires sets the status error, never ready_for_loading, and every load timer
\* that fires sets the status error, never loaded; this holds at every such
\* step, however many there are.
C2_Step ==
    errorMode =>
        /\ LastIsMessage("receive_package")' =>
              /\ packages' = packages
              /\ timers' = timers
              /\ ErrorOnly(sent', last'.sock)
        /\ (LastIsTimer("ready")' \/ LastIsTimer("load")') =>
              LET t == last'.timer IN
              /\ packages'[t.pkg].status = "error"
              /\ packages'[t.pkg].timestamps["error"] = clock'
              /\ packages'[t.pkg].assignedVehicle = packages[t.pkg].assignedVehicle
              /\ \A e \in EventsWritten(sent') : e.type = "error"
\* C2, stated of every step of every behaviour
C2_ForcedFailure == [][C2_Step]_vars

\* a load timer has fired with errorMode on and left the package in error
C2_Witness ==
    /\ errorMode
    /\ LastIsTimer("load")
    /\ packages[last.timer.pkg].status = "error"
    /\ sent = Only(last.timer.sock,
                [type |-> "error", packageId |-> last.timer.pkg,
                 orderId |-> packages[last.timer.pkg].orderId,
                 message |-> "simulated_load_error"])

\* C3 as the specification states it: in every package the received
\* timestamp is no later than any other timestamp of its map.
C3_ReceivedIsEarliest ==
    \A p \in DOMAIN packages :
       \A k \in DOMAIN packages[p].timestamps :
          packages[p].timestamps["received"] <= packages[p].timestamps[k]

\* C4 as the specification states it: once one identity has been registered
\* on connection a and then on connection b, the registry maps it to b, and
\* from then on (while b stays open and until the identity is registered
\* again) a delivery addressed to the identity is written once to b and to
\* no other connection.
C4_Step ==
    /\ LastIsMessage("register_adapter")' =>
          adapters'[adapterId'[last'.sock]] = last'.sock
    /\ \A a, b \in Sockets : \A id \in DOMAIN adapters :
          ( /\ a # b
            /\ adapterId[a] = id
            /\ adapterId[b] = id
            /\ adapters[id] = b
            /\ sockets'[b] = "open"
            /\ ~LastIsMessage("register_adapter")' ) =>
          (sendToAdapterById(NoOutput, id, [type |-> "delivery"]))'
              = Only(b, [type |-> "delivery"])
\* C4, stated of every step of every behaviour
C4_LatestRegistrationWins == [][C4_Step]_vars

\* C5 as the specification states it: a package whose status is error keeps
\* that status at every later step, whichever command or timer the step runs.
C5_Step ==
    \A p \in DOMAIN packages :
       packages[p].status = "error" => packages'[p].status = "error"
\* C5, stated of every step of every behaviour
C5_ErrorIsTerminal == [][C5_Step]_vars

\* whether the timer firing that led to the current state took its failure
\* branch
Diverted == errorMode \/ last.draw < ERROR_RATE
\* the status a timer of the given kind writes when it is not diverted
SuccessStatus(kind) ==
    CASE kind = "received" -> "received"
      [] kind = "ready" -> "ready_for_loading"
      [] kind = "load" -> "loaded"
\* the event a timer t writes when it is not diverted
SuccessEvent(pkgs, t, now) ==
    CASE t.kind = "received" -> ReceivedEvent(pkgs, t.pkg, now)
      [] t.kind = "ready" -> ReadyEvent(pkgs, t.pkg, now)
      [] t.kind = "load" -> LoadedEvent(pkgs, t.pkg, t.vehicleId, now)

\* C6: a simulate_error command retracts no pending timer, and a timer that
\* fires on a package in status error and is not diverted to its own failure
\* branch overwrites the status with received, ready_for_loading or loaded
\* and writes the matching success event to its connection (if still open).
\* The witness C6_Witness is the behaviour the claim says is reachable.
C6_Step ==
    /\ LastIsMessage("simulate_error")' => timers' = timers
    /\ (last'.op = "timer" /\ packages[last'.timer.pkg].status = "error"
          /\ (last'.timer.kind = "received" \/ ~Diverted')) =>
          LET t == last'.timer IN
          /\ packages'[t.pkg].status = SuccessStatus(t.kind)
          /\ sent' = OnlyIfOpen(sockets', t.sock, SuccessEvent(packages', t, clock'))
\* C6, stated of every step of every behaviour
C6_TimerOutlivesError == [][C6_Step]_vars

\* a received timer has just fired on a package that a simulate_error had
\* put in error: the error timestamp is older than the first moment a timer
\* of this package could fire, the status is received again and the
\* package_received event has been written
C6_Witness ==
    /\ LastIsTimer("received")
    /\ "error" \in DOMAIN packages[last.timer.pkg].timestamps
    /\ packages[last.timer.pkg].timestamps["error"] + DEFAULT_DELAY_MS
          < last.timer.due + DEFAULT_LOAD_DELAY_MS
    /\ packages[last.timer.pkg].status = "received"
    /\ sent = Only(last.timer.sock, ReceivedEvent(packages, last.timer.pkg, clock))

\* C7: scan_package naming an existing package, whatever its status, sets
\* the status scanned, records the scanned timestamp and in the same step
\* writes exactly one package_scanned event to the connection that sent the
\* command; it changes nothing else of the package, no other package and no
\* timer.
C7_Step ==
    (LastIsMessage("scan_package")' /\ last'.msg.packageId \in DOMAIN packages) =>
        LET p == last'.msg.packageId IN
        /\ packages' = [packages EXCEPT
                          ![p].status = "scanned",
                          ![p].timestamps =
                             [k \in DOMAIN @ \cup {"scanned"} |->
                                 IF k = "scanned" THEN clock' ELSE @[k]]]
        /\ sent' = Only(last'.sock,
                      [type |-> "package_scanned", packageId |-> p,
                       orderId |-> packages[p].orderId,
                       scanPoint |-> OrElse(last'.msg.scanPoint, "unknown"),
                       timestamp |-> clock'])
        /\ timers' = timers
\* C7, stated of every step of every behaviour
C7_ScanAlwaysApplies == [][C7_Step]_vars

\* a package that had been in error has just been scanned
C7_Witness ==
    /\ LastIsMessage("scan_package")
    /\ last.msg.packageId \in DOMAIN packages
    /\ "error" \in DOMAIN packages[last.msg.packageId].timestamps
    /\ packages[last.msg.packageId].status = "scanned"
    /\ packages[last.msg.packageId].timestamps["scanned"] = clock
    /\ Len(sent[last.sock]) = 1
    /\ sent[last.sock][1].type = "package_scanned"

\* C8: load_package naming a package the store does not hold writes exactly
\* one package_not_found error to the connection that sent it and nothing to
\* any other, schedules no timer (so nothing follows later) and changes no
\* package.
C8_Step ==
    ( /\ LastIsMessage("load_package")'
      /\ ~Falsy(last'.msg.packageId)
      /\ last'.msg.packageId \notin DOMAIN packages ) =>
        /\ sent' = Only(last'.sock,
                      [type |-> "error", message |-> "package_not_found"])
        /\ timers' = timers
        /\ packages' = packages
\* C8, stated of every step of every behaviour
C8_LoadUnknownPackage == [][C8_Step]_vars

\* a load_package for an unknown id has just been refused while the store
\* holds a package and a timer is pending
C8_Witness ==
    /\ LastIsMessage("load_package")
    /\ last.msg.packageId = "pkg-unknown"
    /\ packages # <<>>
    /\ timers # <<>>
    /\ sent = Only(last.sock, [type |-> "error", message |-> "package_not_found"])

\* C9: a receive_package that is rejected, because it carries no orderId or
\* because failure injection fires (errorMode on, or the random draw below
\* ERROR_RATE), leaves the package store unchanged, schedules no timer and
\* writes exactly one event, an error and not an ack, to the connection that
\* sent it.
C9_Step ==
    ( /\ LastIsMessage("receive_package")'
      /\ (Falsy(last'.msg.orderId) \/ errorMode \/ last'.draw < ERROR_RATE) ) =>
        /\ packages' = packages
        /\ timers' = timers
        /\ sent' = Only(last'.sock,
                      IF Falsy(last'.msg.orderId)
                      THEN [type |-> "error", message |-> "missing_orderId"]
                      ELSE [type |-> "error", message |-> "simulated_receive_failure",
                            orderId |-> last'.msg.orderId])
\* C9, stated of every step of every behaviour
C9_RejectedReceive == [][C9_Step]_vars

\* a receive_package with an orderId has just been rejected by the random
\* draw alone, after an earlier one had been accepted
C9_Witness ==
    /\ LastIsMessage("receive_package")
    /\ ~Falsy(last.msg.orderId)
    /\ ~errorMode
    /\ last.draw < ERROR_RATE
    /\ Cardinality(DOMAIN packages) = 1
    /\ Len(timers) = 1
    /\ sent = Only(last.sock,
                [type |-> "error", message |-> "simulated_receive_failure",
                 orderId |-> last.msg.orderId])

\* the load timer a load_package command msg on socket s adds
LoadTimerOf(s, msg, v, now) ==
    [kind |-> "load", pkg |-> msg.packageId, sock |-> s,
     due |-> now + DEFAULT_LOAD_DELAY_MS, vehicleId |-> v]
\* a load_package on an existing package schedules one load timer that holds
\* the vehicleId of the command, or a generated one if the command has none
C10_Command ==
    (LastIsMessage("load_package")' /\ last'.msg.packageId \in DOMAIN packages) =>
        \E v \in VehicleIds \cup GeneratedVehicleIds :
           /\ IF Falsy(last'.msg.vehicleId)
              THEN v \in GeneratedVehicleIds
              ELSE v = last'.msg.vehicleId
           /\ timers' = Append(timers, LoadTimerOf(last'.sock, last'.msg, v, clock))
\* the package after a load timer t fired without being diverted
C10_Loaded(t) ==
    [packages EXCEPT
       ![t.pkg].status = "loaded",
       ![t.pkg].assignedVehicle = t.vehicleId,
       ![t.pkg].timestamps =
          [k \in DOMAIN @ \cup {"loaded"} |-> IF k = "loaded" THEN clock' ELSE @[k]]]

\* C10 as the specification states it: a load on an existing package whose
\* timer is not diverted sets the status loaded, sets assignedVehicle to the
\* vehicleId of the command (a generated one if it had none), records the
\* loaded timestamp and writes exactly one package_loaded event with that
\* vehicleId and status loaded.
C10_StepAsClaimed ==
    /\ C10_Command
    /\ (LastIsTimer("load")' /\ ~Diverted') =>
          /\ packages' = C10_Loaded(last'.timer)
          /\ sent' = Only(last'.timer.sock,
                        LoadedEvent(packages', last'.timer.pkg,
                                    last'.timer.vehicleId, clock'))
\* C10 as the specification states it, of every step of every behaviour
C10_AsClaimed == [][C10_StepAsClaimed]_vars

\* C10, amended: the same, except that the package_loaded event is written,
\* once, only if the connection that sent the load_package is still open
\* when the timer fires; if it has closed the package is updated all the
\* same and no event is written.
C10_Step ==
    /\ C10_Command
    /\ (LastIsTimer("load")' /\ ~Diverted') =>
          /\ packages' = C10_Loaded(last'.timer)
          /\ sent' = OnlyIfOpen(sockets', last'.timer.sock,
                        LoadedEvent(packages', last'.timer.pkg,
                                    last'.timer.vehicleId, clock'))
\* C10, amended, stated of every step of every behaviour
C10_Amended == [][C10_Step]_vars

\* a load timer holding the vehicleId of its command has just fired with
\* failures possible but not drawn, and package_loaded has been written
C10_Witness ==
    /\ LastIsTimer("load")
    /\ ~Diverted
    /\ ERROR_RATE > 0
    /\ last.timer.vehicleId \in VehicleIds
    /\ packages[last.timer.pkg].status = "loaded"
    /\ packages[last.timer.pkg].assignedVehicle = last.timer.vehicleId
    /\ sent = Only(last.timer.sock,
                LoadedEvent(packages, last.timer.pkg, last.timer.vehicleId, clock))

\* a load_package naming a stored package has just been handled
AcceptedLoad == LastIsMessage("load_package") /\ last.msg.packageId \in DOMAIN packages

\* C11: the step that accepts a load_package changes no package (status,
\* assignedVehicle and timestamps stay as they were) and writes no event; all
\* it does is schedule one load timer, due DEFAULT_LOAD_DELAY_MS later.  A
\* status loaded, a package_loaded event and a simulated_load_error event
\* appear only in the step in which a load timer fires, and no load timer
\* fires before it is due.
C11_Step ==
    /\ AcceptedLoad' =>
          /\ packages' = packages
          /\ sent' = NoOutput
          /\ Len(timers') = Len(timers) + 1
          /\ SubSeq(timers', 1, Len(timers)) = timers
          /\ timers'[Len(timers')].kind = "load"
          /\ timers'[Len(timers')].pkg = last'.msg.packageId
          /\ timers'[Len(timers')].due = clock + DEFAULT_LOAD_DELAY_MS
    /\ LastIsTimer("load")' => last'.timer.due <= clock'
    /\ \A p \in DOMAIN packages :
          (packages'[p].status = "loaded" /\ packages'[p] # packages[p]) =>
             LastIsTimer("load")' /\ last'.timer.pkg = p
    /\ \A e \in EventsWritten(sent') :
          (e.type = "package_loaded"
             \/ (e.type = "error" /\ e.message = "simulated_load_error")) =>
             LastIsTimer("load")' /\ last'.timer.pkg = e.packageId
\* C11, stated of every step of every behaviour
C11_LoadOnlyAtFiring == [][C11_Step]_vars

\* a load_package with a vehicleId has just been accepted: its timer is
\* pending, nothing has been written and the package has no vehicle yet
C11_Witness ==
    /\ AcceptedLoad
    /\ ~Falsy(last.msg.vehicleId)
    /\ sent = NoOutput
    /\ packages[last.msg.packageId].assignedVehicle = Absent
    /\ packages[last.msg.packageId].status # "loaded"
    /\ \E i \in 1..Len(timers) :
          /\ timers[i].kind = "load"
          /\ timers[i].pkg = last.msg.packageId
          /\ timers[i].due = clock + DEFAULT_LOAD_DELAY_MS

\* The event loop runs a while loop to its end, lets the clock advance and
\* runs every callback that is due.
FairSpec ==
    /\ Spec
    /\ WF_vars(\E s \in Sockets : NextLine(s))
    /\ WF_vars(Tick)
    /\ WF_vars(\E i \in 1..Len(timers) : FireReceived(i))
    /\ WF_vars(\E i \in 1..Len(timers) : FireReady(i))
    /\ WF_vars(\E i \in 1..Len(timers) : FireLoad(i))

\* the identities makePackageId can issue within the bounds
PackageIds == {"pkg-" \o shortId(n) : n \in 1..MaxRequests}
\* a timer of the given kind is pending for package p
Pending(kind, p) ==
    \E i \in 1..Len(timers) : timers[i].kind = kind /\ timers[i].pkg = p
\* a timer of the given kind has just fired for package p
Fired(kind, p) == LastIsTimer(kind) /\ last.timer.pkg = p

\* C12: a timer leaves the pending list only by firing, and every pending
\* timer fires: an accepted receive_package (its received timer pending) is
\* eventually followed by the received firing, that firing (the ready timer
\* pending) by the ready firing, which leaves the package ready_for_loading
\* or in error, and an accepted load_package (its load timer pending) by the
\* load firing, whatever else happens in between.
C12_Step ==
    \A i \in 1..Len(timers) :
       (\A j \in 1..Len(timers') : timers'[j] # timers[i]) =>
          last'.op = "timer" /\ last'.timer = timers[i]
C12_TimersAlwaysFire ==
    /\ [][C12_Step]_vars
    /\ \A p \in PackageIds :
          /\ Pending("received", p) ~> Fired("received", p)
          /\ Pending("ready", p) ~> Fired("ready", p)
          /\ Pending("load", p) ~> Fired("load", p)

\* a ready timer has just fired although the connection that sent the
\* receive_package has closed and the package had been put in error
C12_Witness ==
    /\ LastIsTimer("ready")
    /\ sockets[last.timer.sock] = "destroyed"
    /\ "error" \in DOMAIN packages[last.timer.pkg].timestamps
    /\ packages[last.timer.pkg].timestamps["error"] < clock

\* what a firing of a timer of the given kind may do: the status it writes,
\* the timestamp it records and the type of the event it hands to sendLine
Outcomes(kind) ==
    CASE kind = "received" ->
           {[status |-> "received", stamp |-> "received", event |-> "package_received"]}
      [] kind = "ready" ->
           {[status |-> "ready_for_loading", stamp |-> "ready", event |-> "package_ready"],
            [status |-> "error", stamp |-> "error", event |-> "error"]}
      [] kind = "load" ->
           {[status |-> "loaded", stamp |-> "loaded", event |-> "package_loaded"],
            [status |-> "error", stamp |-> "error", event |-> "error"]}
\* the firing of timer t applied outcome o, and only that, to the store
Applied(t, o) ==
    /\ DOMAIN packages' = DOMAIN packages
    /\ \A q \in DOMAIN packages \ {t.pkg} : packages'[q] = packages[q]
    /\ packages'[t.pkg].status = o.status
    /\ packages'[t.pkg].timestamps =
          [k \in DOMAIN packages[t.pkg].timestamps \cup {o.stamp} |->
              IF k = o.stamp THEN clock' ELSE packages[t.pkg].timestamps[k]]
    /\ packages'[t.pkg].orderId = packages[t.pkg].orderId
    /\ packages'[t.pkg].assignedVehicle =
          IF o.status = "loaded" THEN t.vehicleId ELSE packages[t.pkg].assignedVehicle

\* C13 as the specification states it: every timer firing applies exactly
\* one status transition with its timestamp to its package and writes exactly
\* one event: package_received for the received firing, package_ready or
\* error for the ready firing, package_loaded or error for the load firing.
C13_StepAsClaimed ==
    last'.op = "timer" =>
        \E o \in Outcomes(last'.timer.kind) :
           /\ Applied(last'.timer, o)
           /\ \E e \in EventsWritten(sent') :
                 /\ e.type = o.event
                 /\ e.packageId = last'.timer.pkg
                 /\ sent' = Only(last'.timer.sock, e)
\* C13 as the specification states it, of every step of every behaviour
C13_AsClaimed == [][C13_StepAsClaimed]_vars

\* C13, amended: every timer firing applies exactly one status transition
\* with its timestamp to its package; it writes exactly one event of the
\* matching type to the connection captured when it was scheduled if that
\* connection is still open, and no event at all if it has closed; it never
\* writes two.
C13_Step ==
    last'.op = "timer" =>
        \E o \in Outcomes(last'.timer.kind) :
           /\ Applied(last'.timer, o)
           /\ IF sockets'[last'.timer.sock] = "open"
              THEN \E e \in EventsWritten(sent') :
                      /\ e.type = o.event
                      /\ e.packageId = last'.timer.pkg
                      /\ sent' = Only(last'.timer.sock, e)
              ELSE sent' = NoOutput
\* C13, amended, stated of every step of every behaviour
C13_Amended == [][C13_Step]_vars

\* a ready timer has just fired into its failure branch by the random draw
\* and written its one error event
C13_Witness ==
    /\ LastIsTimer("ready")
    /\ ~errorMode
    /\ last.draw < ERROR_RATE
    /\ packages[last.timer.pkg].status = "error"
    /\ Len(sent[last.timer.sock]) = 1
    /\ sent[last.timer.sock][1].type = "error"
    /\ sent[last.timer.sock][1].message = "simulated_processing_error"

\* C14 as the specification states it: the received firing and the ready
\* firing both consult failure injection when they fire, and a firing whose
\* check says fail leaves the package in error, not in its intended status.
C14_StepAsClaimed ==
    /\ (LastIsTimer("received")' /\ errorMode') =>
          packages'[last'.timer.pkg].status = "error"
    /\ (LastIsTimer("ready")' /\ Diverted') =>
          packages'[last'.timer.pkg].status = "error"
C14_Step ==
    /\ LastIsTimer("received")' =>
          /\ packages'[last'.timer.pkg].status = "received"
          /\ \A e \in EventsWritten(sent') : e.type = "package_received"
    /\ LastIsTimer("ready")' =>
          /\ packages'[last'.timer.pkg].status =
                IF errorMode' \/ last'.draw < ERROR_RATE'
                THEN "error"
                ELSE "ready_for_loading"
          /\ \A e \in EventsWritten(sent') :
                e.type = IF errorMode' \/ last'.draw < ERROR_RATE'
                         THEN "error"
                         ELSE "package_ready"
LastIsUndecodable == last.op = "line" /\ ~last.line.blank
\* it dispatched a message that has no type
LastIsUntyped == last.op = "message" /\ Falsy(last.msg.type)
\* it dispatched a line, of whatever kind
LastIsDispatch == last.op \in {"line", "message"}
\* the line it dispatched
LastLine ==
    IF last.op = "line"
    THEN last.line
    ELSE [blank |-> FALSE, json |-> TRUE, value |-> last.msg]

\* C15: a line that does not decode to a message is answered by exactly one
\* invalid_json error, and a message without a type by exactly one
\* missing_type error, on the connection it came in on and on no other; the
\* step changes no package, no timer, no registry entry and no connection.
\* The lines behind it in the buffer stay there in order, and while a buffer
\* holds lines its connection is open and the next step dispatches the first
\* of them and nothing else.
C15_Step ==
    /\ (LastIsUndecodable' \/ LastIsUntyped') =>
          /\ sent' = Only(last'.sock,
                        [type |-> "error",
                         message |-> IF last'.op = "line"
                                     THEN "invalid_json"
                                     ELSE "missing_type"])
          /\ UNCHANGED <<packages, timers, adapters, adapterId, sockets>>
          /\ sockets'[last'.sock] = "open"
    /\ \A s \in Sockets :
          buffer[s] # <<>> =>
             /\ sockets[s] = "open"
             /\ LastIsDispatch'
             /\ last'.sock = s
             /\ LastLine' = Head(buffer[s])
             /\ buffer'[s] = Tail(buffer[s])
\* C15, stated of every step of every behaviour
C15_BadLineIsAnswered == [][C15_Step]_vars

\* a line that does not decode has just been answered with invalid_json
\* while a message that came in the same chunk waits in the buffer
C15_Witness ==
    /\ LastIsUndecodable
    /\ sent = Only(last.sock, [type |-> "error", message |-> "invalid_json"])
    /\ sockets[last.sock] = "open"
    /\ buffer[last.sock] # <<>>
    /\ Head(buffer[last.sock]).json
    /\ Head(buffer[last.sock]).value # Null

\* the five commands handleTcpMessage knows
KnownTypes ==
    {"register_adapter", "receive_package", "scan_package", "load_package",
     "simulate_error"}
\* the step that led to the current state dispatched a message whose type is
\* none of them
LastIsUnknownType ==
    last.op = "message" /\ ~Falsy(last.msg.type) /\ last.msg.type \notin KnownTypes
\* what every line but an accepted load_package is answered with at once, and
\* what an unknown type is answered with
C16_Immediate ==
    /\ (LastIsDispatch' /\ ~LastLine'.blank /\ ~AcceptedLoad') =>
          sent'[last'.sock] # <<>>
    /\ AcceptedLoad' =>
          /\ Len(timers') = Len(timers) + 1
          /\ timers'[Len(timers')].kind = "load"
          /\ timers'[Len(timers')].sock = last'.sock
    /\ LastIsUnknownType' =>
          /\ sent' = Only(last'.sock,
                        [type |-> "error", message |-> "unknown_type",
                         received |-> last'.msg.type])
          /\ UNCHANGED <<packages, timers, adapters, adapterId, sockets, errorMode>>

\* C16 as the specification states it: every line that is not blank leads to
\* at least one message written to the connection it came in on, at once or,
\* for an accepted load_package, when its load timer fires; a message of an
\* unknown type is answered by one unknown_type error that carries the type
\* and changes no state.
C16_StepAsClaimed ==
    /\ C16_Immediate
    /\ LastIsTimer("load")' => sent'[last'.timer.sock] # <<>>
\* C16 as the specification states it, of every step of every behaviour
C16_AsClaimed == [][C16_StepAsClaimed]_vars

\* C16, amended: the same, except that an accepted load_package is answered
\* when its load timer fires only if its connection is still open then; if
\* the connection has closed in between, the command is carried out and
\* nothing is written.
C16_Step ==
    /\ C16_Immediate
    /\ LastIsTimer("load")' =>
          IF sockets'[last'.timer.sock] = "open"
          THEN Len(sent'[last'.timer.sock]) = 1
          ELSE sent' = NoOutput
\* C16, amended, stated of every step of every behaviour
C16_Amended == [][C16_Step]_vars

\* a message of an unknown type has just been answered, with packages stored
\* and a timer pending
C16_Witness ==
    /\ LastIsUnknownType
    /\ sent = Only(last.sock,
                [type |-> "error", message |-> "unknown_type",
                 received |-> last.msg.type])
    /\ packages # <<>>
    /\ timers # <<>>

\* C17 as the specification states it: the registry holds no entry whose
\* connection handle is a connection that has closed, whatever
\* register_adapter messages were sent on it.
C17_ClosedConnectionUnregistered ==
    \A id \in DOMAIN adapters : sockets[adapters[id]] # "destroyed"

\* C18 as the specification states it: the registry never holds two entries
\* with distinct identities that point at the same connection handle.
C18_OneIdentityPerConnection ==
    \A x, y \in DOMAIN adapters : x # y => adapters[x] # adapters[y]

\* the step that led to the current state dispatched a simulate_error that
\* names a package stored in pkgs
SimulatedOn(pkgs) ==
    /\ LastIsMessage("simulate_error")
    /\ ~Falsy(last.msg.packageId)
    /\ last.msg.packageId \in DOMAIN pkgs
\* the identities the registry reg holds for socket s
IdentitiesOf(reg, s) == {id \in DOMAIN reg : reg[id] = s}

\* C19: a simulate_error that names a stored package sets, in the step that
\* dispatches it and without scheduling or cancelling a timer, the status of
\* the package to error and its error timestamp to the current time, and
\* writes the error event once to the connection it came in on and once more
\* to the connection of every identity the registry holds at that moment
\* (a connection that has closed is written nothing); no other event is
\* written.
C19_Step ==
    SimulatedOn(packages)' =>
        LET p == last'.msg.packageId
            ev == [type |-> "error", packageId |-> p, message |-> "simulated_error"]
        IN /\ packages' = [packages EXCEPT
                             ![p].status = "error",
                             ![p].timestamps = ("error" :> clock) @@ @]
           /\ timers' = timers
           /\ clock' = clock
           /\ adapters' = adapters
           /\ sent'[last'.sock] # <<>>
           /\ \A s \in Sockets :
                 /\ \A k \in 1..Len(sent'[s]) : sent'[s][k] = ev
                 /\ Len(sent'[s]) =
                       IF sockets[s] = "open"
                       THEN Cardinality(IdentitiesOf(adapters, s))
                              + (IF s = last'.sock THEN 1 ELSE 0)
                       ELSE 0
LastNamesNoPackage(pkgs) ==
    /\ LastIsMessage("scan_package") \/ LastIsMessage("simulate_error")
    /\ Falsy(last.msg.packageId) \/ last.msg.packageId \notin DOMAIN pkgs

\* C20: a scan_package or simulate_error whose packageId is absent or names
\* no stored package is answered by one error event, written to the
\* connection it came in on and to no other: missing_packageId for a
\* scan_package without packageId, package_not_found otherwise; no package
\* changes, no timer is scheduled and nothing is broadcast.
C20_Step ==
    LastNamesNoPackage(packages)' =>
        /\ sent' = Only(last'.sock,
                      [type |-> "error",
                       message |-> IF LastIsMessage("scan_package")'
                                        /\ Falsy(last'.msg.packageId)
                                   THEN "missing_packageId"
                                   ELSE "package_not_found"])
        /\ packages' = packages
        /\ timers' = timers
        /\ adapters' = adapters
\* C20, stated of every step of every behaviour
C20_UnknownPackageIsRefused == [][C20_Step]_vars

\* with an adapter registered and a package stored, a simulate_error naming
\* an unknown package has just been refused on its own connection only
C20_Witness ==
    /\ LastIsMessage("simulate_error")
    /\ last.msg.packageId = "pkg-unknown"
    /\ adapters # <<>>
    /\ packages # <<>>
    /\ sent = Only(last.sock, [type |-> "error", message |-> "package_not_found"])

\* the key of the timestamps object under which the code records the entry
\* into a status: the status itself, except ready_for_loading, recorded as ready
TimestampKey(status) == IF status = "ready_for_loading" THEN "ready" ELSE status
\* package p of the store pkgs carries, for the status it is in, a timestamp
\* equal to now
StampedAt(pkgs, p, now) ==
    /\ TimestampKey(pkgs[p].status) \in DOMAIN pkgs[p].timestamps
    /\ pkgs[p].timestamps[TimestampKey(pkgs[p].status)] = now
\* the delay a timer of the given kind is scheduled with
DelayOf(kind) ==
    CASE kind = "received" -> DEFAULT_DELAY_MS
      [] kind = "ready" -> PACKAGE_READY_EXTRA_MS
      [] kind = "load" -> DEFAULT_LOAD_DELAY_MS

\* C21, of a step: a package that is new, or whose status differs from the
\* one it had, carries the timestamp of its status (under the key ready for
\* ready_for_loading) with the time of this step as its value; in a timer
\* firing that time is the time the timer fell due, later than the time its
\* callback was scheduled.
C21_Step ==
    /\ \A p \in DOMAIN packages' :
          (p \notin DOMAIN packages \/ packages'[p].status # packages[p].status) =>
              StampedAt(packages', p, clock')
    /\ last'.op = "timer" =>
          /\ clock' = last'.timer.due
          /\ clock' > last'.timer.due - DelayOf(last'.timer.kind)
\* C21, of a state: every package has a timestamp for the status it is in
C21_StatusIsStamped ==
    \A p \in DOMAIN packages :
        TimestampKey(packages[p].status) \in DOMAIN packages[p].timestamps
\* C21: every step that changes the status of a package writes the timestamp
\* of that status in the same step with the clock of that step, and in every
\* reachable state the status of a package has a timestamp.
C21_TransitionIsStamped == [][C21_Step]_vars /\ []C21_StatusIsStamped

\* the ready timer of a package has just fired without failure: the package
\* is ready_for_loading and its ready timestamp is the firing time, one delay
\* after the received timestamp
C21_Witness ==
    /\ LastIsTimer("ready")
    /\ packages[last.timer.pkg].status = "ready_for_loading"
    /\ packages[last.timer.pkg].timestamps["ready"] = clock
    /\ packages[last.timer.pkg].timestamps["received"] = clock - PACKAGE_READY_EXTRA_MS

\* C22, of a step: every package keeps every key of its timestamp map, a key
\* is added only for the status the package is in after the step, and a
\* package that is in error after a simulate_error or a timer firing of this
\* step keeps the value of every timestamp of it other than the error
\* timestamp this step writes.
C22_Step ==
    \A p \in DOMAIN packages :
        /\ p \in DOMAIN packages'
        /\ DOMAIN packages[p].timestamps \subseteq DOMAIN packages'[p].timestamps
        /\ DOMAIN packages'[p].timestamps \ DOMAIN packages[p].timestamps
              \subseteq {TimestampKey(packages'[p].status)}
        /\ ( /\ packages'[p].status = "error"
             /\ \/ SimulatedOn(packages)' /\ last'.msg.packageId = p
                \/ last'.op = "timer" /\ last'.timer.pkg = p ) =>
              \A k \in DOMAIN packages[p].timestamps \ {"error"} :
                  packages'[p].timestamps[k] = packages[p].timestamps[k]
\* C22: no operation removes an entry from the timestamp map of a package,
\* and a transition to error leaves the timestamps recorded before it in
\* place with their values, so that each status entered keeps its timestamp.
C22_TimestampsAreKept == [][C22_Step]_vars

\* the ready timer of a package has just been diverted to error: the package
\* has its received timestamp, written one delay earlier, and its error
\* timestamp
C22_Witness ==
    /\ LastIsTimer("ready")
    /\ packages[last.timer.pkg].status = "error"
    /\ DOMAIN packages[last.timer.pkg].timestamps = {"received", "error"}
    /\ packages[last.timer.pkg].timestamps["error"] = clock
    /\ packages[last.timer.pkg].timestamps["received"] = clock - PACKAGE_READY_EXTRA_MS

\* C23 as the specification states it: every identity makePackageId returns
\* differs from every identity it returned before, so that storing a package
\* never replaces one that is stored.
C23_IdentityNeverReused ==
    /\ \A i, j \in 1..Len(issued) : i # j => issued[i] # issued[j]
    /\ Cardinality(DOMAIN packages) = Len(issued)

\* C24, of a step: every stored package stays stored; the store gains a
\* package only in the step that dispatches a receive_package with an orderId
\* that failure injection does not divert, and then exactly one; a connection
\* close leaves every package as it was.
C24_Step ==
    /\ \A p \in DOMAIN packages : p \in DOMAIN packages'
    /\ DOMAIN packages' # DOMAIN packages =>
          /\ AcceptedReceive'
          /\ ~Diverted'
          /\ Cardinality(DOMAIN packages') = Cardinality(DOMAIN packages) + 1
    /\ last'.op = "close" => packages' = packages
\* C24: the package store only grows, by accepted receive_package commands
\* alone, and a connection close changes no package.
C24_StoreOnlyGrows == [][C24_Step]_vars

\* a connection has just closed while a timer scheduled on it was pending
\* for a stored package
C24_Witness ==
    /\ last.op = "close"
    /\ \E i \in 1..Len(timers) :
          /\ timers[i].sock = last.sock
          /\ timers[i].pkg \in DOMAIN packages

\* C25, of a step: a package enters the store with assignedVehicle unset, and
\* the assignedVehicle of a stored package changes only in the firing of a
\* load timer of that package that failure injection does not divert, the
\* step that sets its status to loaded and its loaded timestamp to the time
\* of the firing; the value written is the vehicle of that load command.
C25_Step ==
    \A p \in DOMAIN packages' :
        IF p \notin DOMAIN packages
        THEN packages'[p].assignedVehicle = Absent
        ELSE packages'[p].assignedVehicle # packages[p].assignedVehicle =>
                /\ LastIsTimer("load")'
                /\ last'.timer.pkg = p
                /\ ~Diverted'
                /\ packages'[p].assignedVehicle = last'.timer.vehicleId
                /\ packages'[p].status = "loaded"
                /\ packages'[p].timestamps["loaded"] = clock'
\* C25, of a state: a package with a vehicle assigned has the loaded
\* timestamp that only a load firing that succeeded writes
C25_AssignedMeansLoaded ==
    \A p \in DOMAIN packages :
        packages[p].assignedVehicle # Absent =>
            "loaded" \in DOMAIN packages[p].timestamps
\* C25: assignedVehicle is unset until a load firing of the package succeeds;
\* it is set only in the step that sets status loaded and writes the loaded
\* timestamp, and a load firing diverted to error does not set it.
C25_VehicleOnlyWhenLoaded == [][C25_Step]_vars /\ []C25_AssignedMeansLoaded

\* a load timer has just fired without failure and assigned its vehicle to a
\* package that had none
C25_Witness ==
    /\ LastIsTimer("load")
    /\ packages[last.timer.pkg].status = "loaded"
    /\ packages[last.timer.pkg].assignedVehicle = last.timer.vehicleId
    /\ last.timer.vehicleId # Absent

\* C26: the step that dispatches a register_adapter stores the calling
\* connection in the registry under the adapterId of the message, or under a
\* generated identity if the message has none, changes no other entry of the
\* registry, and writes to that connection, and to no other, one register_ack
\* whose adapterId is the identity the connection was stored under.
C26_Step ==
    LastIsMessage("register_adapter")' =>
        LET sock == last'.sock
            id == adapterId'[sock]
        IN /\ IF Falsy(last'.msg.adapterId)
              THEN id \in GeneratedAdapterIds
              ELSE id = last'.msg.adapterId
           /\ id \in DOMAIN adapters'
           /\ adapters'[id] = sock
           /\ DOMAIN adapters' = DOMAIN adapters \cup {id}
           /\ \A a \in DOMAIN adapters \ {id} : adapters'[a] = adapters[a]
           /\ sent' = Only(sock, [type |-> "register_ack", adapterId |-> id,
                                  status |-> "ok", timestamp |-> clock'])
           /\ packages' = packages
           /\ timers' = timers
\* C26, stated of every step of every behaviour
C26_AckNamesTheBinding == [][C26_Step]_vars

\* a register_adapter without adapterId has just been acknowledged with the
\* generated identity the registry now holds for the connection
C26_Witness ==
    /\ LastIsMessage("register_adapter")
    /\ Falsy(last.msg.adapterId)
    /\ \E g \in GeneratedAdapterIds :
          /\ g \in DOMAIN adapters
          /\ adapters[g] = last.sock
          /\ sent[last.sock] = <<[type |-> "register_ack", adapterId |-> g,
                                  status |-> "ok", timestamp |-> clock]>>

\* the four commands that act on packages
CommandTypes == {"receive_package", "scan_package", "load_package", "simulate_error"}
LastIsCommand == last.op = "message" /\ last.msg.type \in CommandTypes
\* the connection the last step served is registered under some identity
LastIsRegistered == IdentitiesOf(adapters, last.sock) # {}

\* What a command does when the connection it comes in on has never
\* registered, as a function of the message, the Math.random() draw, the
\* connection and the packages, timers, clock and failure settings of the
\* current state (the registry is not read): the lines written to the
\* connection, and the packages and timers afterwards.
Unregistered(sock, msg, r) ==
    LET err(m) == [type |-> "error", message |-> m]
        kept(reply) == [reply |-> reply, packages |-> packages, timers |-> timers]
        p == msg.packageId
    IN CASE msg.type = "receive_package" ->
              IF Falsy(msg.orderId)
              THEN kept(<<err("missing_orderId")>>)
              ELSE IF errorMode \/ r < ERROR_RATE
              THEN kept(<<[type |-> "error", message |-> "simulated_receive_failure",
                           orderId |-> msg.orderId]>>)
              ELSE [reply |-> <<[type |-> "ack", status |-> "received",
                                 packageId |-> makePackageId,
                                 orderId |-> msg.orderId]>>,
                    packages |->
                        (makePackageId :>
                            [packageId |-> makePackageId, orderId |-> msg.orderId,
                             status |-> "received", assignedVehicle |-> Absent,
                             timestamps |-> ("received" :> clock)]) @@ packages,
                    timers |->
                        Append(timers, [kind |-> "received", pkg |-> makePackageId,
                                        sock |-> sock,
                                        due |-> clock + DEFAULT_DELAY_MS])]
         [] msg.type = "scan_package" ->
              IF Falsy(p) THEN kept(<<err("missing_packageId")>>)
              ELSE IF p \notin DOMAIN packages THEN kept(<<err("package_not_found")>>)
              ELSE [reply |-> <<[type |-> "package_scanned", packageId |-> p,
                                 orderId |-> packages[p].orderId,
                                 scanPoint |-> OrElse(msg.scanPoint, "unknown"),
                                 timestamp |-> clock]>>,
                    packages |-> [packages EXCEPT
                                    ![p].status = "scanned",
                                    ![p].timestamps = ("scanned" :> clock) @@ @],
                    timers |-> timers]
         [] msg.type = "load_package" ->
              IF Falsy(p) THEN kept(<<err("missing_packageId")>>)
              ELSE IF p \notin DOMAIN packages THEN kept(<<err("package_not_found")>>)
              ELSE [reply |-> <<>>,
                    packages |-> packages,
                    timers |->
                        Append(timers, [kind |-> "load", pkg |-> p, sock |-> sock,
                                        due |-> clock + DEFAULT_LOAD_DELAY_MS,
                                        vehicleId |-> OrElse(msg.vehicleId, newVehicleId)])]
         [] msg.type = "simulate_error" ->
              IF Falsy(p) \/ p \notin DOMAIN packages
              THEN kept(<<err("package_not_found")>>)
              ELSE [reply |-> <<[type |-> "error", packageId |-> p,
                                 message |-> OrElse(msg.error, "simulated_error")]>>,
                    packages |-> [packages EXCEPT
                                    ![p].status = "error",
                                    ![p].timestamps = ("error" :> clock) @@ @],
                    timers |-> timers]
\* the step that led to the current state dispatched a simulate_error naming
\* a package of the store pkgs on a connection the registry reg holds
BroadcastBack(pkgs, reg) ==
    SimulatedOn(pkgs) /\ IdentitiesOf(reg, last.sock) # {}

\* C27 as the specification states it: a receive_package, scan_package,
\* load_package or simulate_error changes the packages and the timers, and is
\* answered on its connection, exactly as it would be on a connection that
\* never registered, whether or not its connection is registered.
C27_StepAsClaimed ==
    LastIsCommand' =>
        LET u == Unregistered(last'.sock, last'.msg, last'.draw)
        IN /\ packages' = u.packages
           /\ timers' = u.timers
           /\ sent'[last'.sock] = u.reply
\* C27 as the specification states it, of every step of every behaviour
C27_AsClaimed == [][C27_StepAsClaimed]_vars

\* C27, amended: the packages and timers change as on a connection that
\* never registered, and so does the answer on the connection, except for a
\* simulate_error that names a stored package and comes in on a registered
\* connection: that connection is written the error event once as the
\* originator and once more for every identity it is registered under.
C27_Step ==
    LastIsCommand' =>
        LET u == Unregistered(last'.sock, last'.msg, last'.draw)
            n == Cardinality(IdentitiesOf(adapters, last'.sock))
        IN /\ packages' = u.packages
           /\ timers' = u.timers
           /\ adapters' = adapters
           /\ adapterId' = adapterId
           /\ sent'[last'.sock] =
                 IF BroadcastBack(packages, adapters)'
                 THEN u.reply \o [k \in 1..n |-> u.reply[1]]
                 ELSE u.reply
\* C27, amended, stated of every step of every behaviour
C27_Amended == [][C27_Step]_vars

\* a connection that never registered has just had its scan_package of a
\* stored package carried out and answered
C27_Witness ==
    /\ LastIsMessage("scan_package")
    /\ last.msg.packageId \in DOMAIN packages
    /\ adapterId[last.sock] = Absent
    /\ ~LastIsRegistered
    /\ packages[last.msg.packageId].status = "scanned"
    /\ Len(sent[last.sock]) = 1
    /\ sent[last.sock][1].type = "package_scanned"

\* the positions of the line terminators in the stream str, and the last of
\* them (0 if there is none)
Terminators(str) == {i \in 1..Len(str) : str[i] = "\n"}
LastTerminator(str) ==
    IF Terminators(str) = {} THEN 0
    ELSE CHOOSE i \in Terminators(str) : \A j \in Terminators(str) : j <= i
\* the line of str that the terminator at position i ends
LineEndingAt(str, i) ==
    LET before == {j \in Terminators(str) : j < i}
        start == IF before = {} THEN 1
                 ELSE 1 + CHOOSE j \in before : \A k \in before : k <= j
    IN SubSeq(str, start, i - 1)
\* a line of blanks only, or of nothing
IsBlank(line) == \A i \in 1..Len(line) : line[i] = " "
\* the lines of the stream str that are complete and not blank, trimmed, in
\* the order of the stream: a function of the stream alone
FramesOf(str) ==
    LET at == [i \in 1..Len(str) |->
                  IF str[i] = "\n" THEN LineEndingAt(str, i) ELSE <<>>]
        kept == SelectSeq(at, LAMBDA line : ~IsBlank(line))
    IN [k \in 1..Len(kept) |-> trim(kept[k])]
\* the characters of str after its last terminator
TailOf(str) == SubSeq(str, LastTerminator(str) + 1, Len(str))

\* C28, of a state: whatever chunks the characters arrived in, the lines
\* passed on so far are the complete lines of the stream that are not blank,
\* trimmed and in stream order, and the buffer holds the characters after the
\* last terminator.
C28_Framed ==
    /\ dispatched = FramesOf(arrived)
    /\ bufferChars = TailOf(arrived)
    /\ \A k \in 1..Len(dispatched) : ~IsBlank(dispatched[k])
\* C28, of a step: the connection is written one response for each line
\* passed on in the step, and none for a line skipped as blank
C28_Step ==
    /\ Len(sent'[1]) = Len(dispatched') - Len(dispatched)
    /\ \A s \in Sockets \ {1} : sent'[s] = <<>>
\* C28: the lines dispatched depend on the stream and not on how it is cut
\* into chunks; a line is dispatched only once its terminator has arrived,
\* the incomplete tail stays buffered, and empty or whitespace-only lines are
\* skipped without a response.
C28_ChunkingDoesNotMatter == []C28_Framed /\ [][C28_Step]_vars

\* a chunk has just completed a line begun by an earlier chunk, carried a
\* blank line and begun a third line: one line has been passed on, trimmed,
\* and the beginning of the third waits in the buffer
C28_Witness ==
    /\ arrived = <<" ", "x", "\n", "\n", "x">>
    /\ last.op = "data"
    /\ last.chunk = <<"\n", "\n", "x">>
    /\ dispatched = << <<"x">> >>
    /\ bufferChars = <<"x">>
    /\ Len(sent[1]) = 1

\* the stored packages the last step concerns: the package a timer was
\* scheduled for, the package a scan_package, load_package or simulate_error
\* names; a receive_package concerns none of the packages stored before it
Concerned ==
    IF last.op = "timer" THEN {last.timer.pkg}
    ELSE IF LastIsCommand /\ last.msg.type # "receive_package"
    THEN {last.msg.packageId}
    ELSE {}

\* C29: a command or a timer firing leaves the status, timestamps and
\* assigned vehicle of every package other than the one it concerns as they
\* were, whether it succeeds or ends in an error, and leaves the adapter
\* registry as it was.
C29_Step ==
    (LastIsCommand' \/ last'.op = "timer") =>
        /\ \A q \in DOMAIN packages :
              q \notin Concerned' =>
                  q \in DOMAIN packages' /\ packages'[q] = packages[q]
        /\ adapters' = adapters
        /\ adapterId' = adapterId
\* C29, stated of every step of every behaviour
C29_PackagesAreIsolated == [][C29_Step]_vars

\* with two packages stored, the ready timer of one of them has just fired
\* and moved it on, while the other is still as its receive_package left it
C29_Witness ==
    /\ LastIsTimer("ready")
    /\ packages[last.timer.pkg].status \in {"ready_for_loading", "error"}
    /\ \E q \in DOMAIN packages :
          /\ q # last.timer.pkg
          /\ packages[q].status = "received"
          /\ DOMAIN packages[q].timestamps = {"received"}

\* what a scan leaves untouched in the store pkgs: the order of each package
OrdersOf(pkgs) == [p \in DOMAIN pkgs |-> [orderId |-> pkgs[p].orderId]]
\* the event a timer t writes when it is diverted
DivertedEvent(pkgs, t) ==
    [type |-> "error", packageId |-> t.pkg, orderId |-> pkgs[t.pkg].orderId,
     message |-> IF t.kind = "ready" THEN "simulated_processing_error"
                 ELSE "simulated_load_error"]

\* C30: a scan_package leaves the pending timers as they are (none removed,
\* none added, no due time moved) and changes the order of no package; and
\* what a timer firing writes and schedules is determined by the timer, the
\* failure test, the clock and the order of its package, none of which a scan
\* changes, so the events that follow a scan are those of the run without it.
C30_Step ==
    /\ LastIsMessage("scan_package")' =>
          /\ timers' = timers
          /\ OrdersOf(packages') = OrdersOf(packages)
    /\ last'.op = "timer" =>
          LET t == last'.timer
              orders == OrdersOf(packages)
              rest == SelectSeq(timers', LAMBDA x : x \in {timers[i] : i \in 1..Len(timers)})
          IN /\ sent' = OnlyIfOpen(sockets, t.sock,
                           IF t.kind # "received" /\ Diverted'
                           THEN DivertedEvent(orders, t)
                           ELSE SuccessEvent(orders, t, clock))
             /\ Len(rest) = Len(timers) - 1
             /\ IF t.kind = "received"
                THEN /\ Len(timers') = Len(timers)
                     /\ timers'[Len(timers')] =
                           [kind |-> "ready", pkg |-> t.pkg, sock |-> t.sock,
                            due |-> clock + PACKAGE_READY_EXTRA_MS]
                ELSE timers' = rest
\* C30, stated of every step of every behaviour
C30_ScanIsASideBranch == [][C30_Step]_vars

\* a package was scanned while its receive chain was pending, and its ready
\* timer has just fired all the same and written its package_ready event
C30_Witness ==
    /\ LastIsTimer("ready")
    /\ "scanned" \in DOMAIN packages[last.timer.pkg].timestamps
    /\ packages[last.timer.pkg].status = "ready_for_loading"
    /\ sent = Only(last.timer.sock, ReadyEvent(packages, last.timer.pkg, clock))

\* C31: an entry of the registry is removed only when the connection it
\* points at closes: a close of one connection leaves every identity that maps
\* to another connection in the registry, still mapped to that connection, so
\* that connection still receives the broadcasts.
C31_Step ==
    last'.op = "close" =>
        \A id \in DOMAIN adapters :
            adapters[id] # last'.sock =>
                /\ id \in DOMAIN adapters'
                /\ adapters'[id] = adapters[id]
\* C31, stated of every step of every behaviour
C31_OnlyOwnerIsRemoved == [][C31_Step]_vars

\* ---------------------------------------------------- an adapter registered
\* The server with one adapter connected and registered under the identity it
\* supplied: the state the server is in after a connection and its
\* register_adapter.  The run that follows is kept one request shorter than a
\* run from the start of the server: what led here counts as its first
\* request.
RegisteredInit ==
    /\ sockets = [s \in Sockets |-> IF s = 1 THEN "open" ELSE "unconnected"]
    /\ adapterId = [s \in Sockets |-> IF s = 1 THEN "adp-1" ELSE Absent]
    /\ adapters = ("adp-1" :> 1)
    /\ packages = <<>>
    /\ timers = <<>>
    /\ errorMode = FALSE
    /\ ERROR_RATE \in Rates
    /\ clock = 0
    /\ buffer = [s \in Sockets |-> <<>>]
    /\ requests = 1
    /\ uuids = {}
    /\ issued = <<>>
    /\ arrived = <<>>
    /\ bufferChars = <<>>
    /\ dispatched = <<>>
    /\ RosInit
    /\ CmsInit
    /\ sent = NoOutput
    /\ last = [op |-> "init"]

RegisteredSpec == RegisteredInit /\ [][Next]_vars

\* the error event a simulate_error message msg is answered with
SimulatedEvent(msg) ==
    [type |-> "error", packageId |-> msg.packageId,
     message |-> OrElse(msg.error, "simulated_error")]

\* C32: when a simulate_error that names a stored package comes in on a
\* connection that is itself registered, that connection is written the error
\* event twice (the direct reply and the broadcast) and the connection of
\* every other registered adapter is written it once.
C32_Step ==
    (SimulatedOn(packages)' /\ IdentitiesOf(adapters, last'.sock) # {}) =>
        LET ev == SimulatedEvent(last'.msg)
        IN \A s \in Sockets :
              sent'[s] = IF s = last'.sock THEN <<ev, ev>>
                         ELSE IF IdentitiesOf(adapters, s) # {} THEN <<ev>>
                         ELSE <<>>
\* C32, stated of every step of every behaviour
C32_SenderTwiceOthersOnce == [][C32_Step]_vars

\* C33: the event of a timer goes to the socket captured when its command was
\* handled and to no other connection, whichever connection holds the
\* adapter identity by then.  A timer that fires after that connection closed
\* still applies its transition to the package (the status and timestamp of
\* its success branch, or of its failure branch if it is diverted) and writes
\* to no connection at all.
C33_Step ==
    last'.op = "timer" =>
        LET t == last'.timer IN
        /\ \A s \in Sockets \ {t.sock} : sent'[s] = <<>>
        /\ sockets[t.sock] # "open" =>
              /\ sent' = NoOutput
              /\ \E o \in Outcomes(t.kind) :
                    /\ Applied(t, o)
                    /\ o.status = "error" <=> (t.kind # "received" /\ Diverted')
\* C33, stated of every step of every behaviour
C33_EventsFollowTheSocket == [][C33_Step]_vars

\* the received timer of a package has just fired after the connection its
\* receive_package came in on closed: the package was moved on and stamped,
\* and nothing was written, although a newer connection is open and
\* registered under the identity the closed connection had
C33_Witness ==
    /\ LastIsTimer("received")
    /\ sockets[last.timer.sock] = "destroyed"
    /\ ~Falsy(adapterId[last.timer.sock])
    /\ \E s \in Sockets :
          /\ s > last.timer.sock
          /\ sockets[s] = "open"
          /\ adapterId[last.timer.sock] \in DOMAIN adapters
          /\ adapters[adapterId[last.timer.sock]] = s
    /\ packages[last.timer.pkg].status = "received"
    /\ packages[last.timer.pkg].timestamps["received"] = clock
    /\ clock = DEFAULT_DELAY_MS
    /\ sent = NoOutput

\* C34: the received firing sets the status of its package to received and
\* rewrites its received timestamp whatever the status was (scanned, loaded
\* and error included), leaves assignedVehicle and the other timestamps as
\* they are and schedules the ready firing; the ready firing, when its failure
\* test does not divert it, sets ready_for_loading in the same way.  So a
\* package loaded between its ack and its received firing goes back to
\* received and on to ready_for_loading with its assignedVehicle and loaded
\* timestamp still set (C34_Witness).
C34_Step ==
    (last'.op = "timer" /\ last'.timer.kind \in {"received", "ready"}) =>
        LET t == last'.timer
            before == packages[t.pkg]
            after == packages'[t.pkg]
        IN /\ t.kind = "received" =>
                 /\ after.status = "received"
                 /\ after.timestamps["received"] = clock'
                 /\ \E i \in 1..Len(timers') :
                       timers'[i].kind = "ready" /\ timers'[i].pkg = t.pkg
           /\ (t.kind = "ready" /\ ~Diverted') =>
                 /\ after.status = "ready_for_loading"
                 /\ after.timestamps["ready"] = clock'
           /\ after.assignedVehicle = before.assignedVehicle
           /\ \A k \in DOMAIN before.timestamps \ {"received", "ready", "error"} :
                 k \in DOMAIN after.timestamps /\ after.timestamps[k] = before.timestamps[k]
\* C34, stated of every step of every behaviour
C34_ReceivedFiringIsUnconditional == [][C34_Step]_vars

\* a package was loaded before its received timer fired; the received firing
\* put it back to received and the ready firing has just made it
\* ready_for_loading, with its vehicle and loaded timestamp still in place
C34_Witness ==
    /\ LastIsTimer("ready")
    /\ LET p == packages[last.timer.pkg]
       IN /\ p.status = "ready_for_loading"
          /\ p.assignedVehicle = "v9"
          /\ "loaded" \in DOMAIN p.timestamps
          /\ p.timestamps["loaded"] < p.timestamps["received"]
          /\ p.timestamps["received"] < p.timestamps["ready"]

\* the number of load timers pending for package p among the timers ts
LoadsPending(ts, p) ==
    Cardinality({i \in 1..Len(ts) : ts[i].kind = "load" /\ ts[i].pkg = p})
\* the load_package of the step names a package of the store pkgs
LoadNames(pkgs) ==
    /\ LastIsMessage("load_package")
    /\ ~Falsy(last.msg.packageId)
    /\ last.msg.packageId \in DOMAIN pkgs
\* one load per load: a load_package naming a stored package adds one pending
\* load timer for it whatever the status of the package, a load firing takes
\* one away, and nothing else changes the number; assignedVehicle is written
\* by an undiverted load firing, with the vehicle of that firing, and by
\* nothing else
C35_OneTimerPerLoad ==
    /\ \A p \in DOMAIN packages :
          LoadsPending(timers', p) =
             IF LoadNames(packages)' /\ last'.msg.packageId = p
             THEN LoadsPending(timers, p) + 1
             ELSE IF LastIsTimer("load")' /\ last'.timer.pkg = p
             THEN LoadsPending(timers, p) - 1
             ELSE LoadsPending(timers, p)
    /\ \A p \in DOMAIN packages :
          packages'[p].assignedVehicle =
             IF LastIsTimer("load")' /\ last'.timer.pkg = p /\ ~Diverted'
             THEN last'.timer.vehicleId
             ELSE packages[p].assignedVehicle
\* the outcome event of the load timer t
LoadOutcome(pkgs, t, now, diverted) ==
    IF diverted THEN DivertedEvent(pkgs, t)
    ELSE LoadedEvent(pkgs, t.pkg, t.vehicleId, now)

\* C35 as the specification states it: load_package is accepted in every
\* status of a stored package and each accepted load schedules its own timer,
\* so n loads of a package yield n load firings; each firing writes one
\* outcome event, and assignedVehicle is the vehicle of the successful firing
\* that happened last.
C35_StepAsClaimed ==
    /\ C35_OneTimerPerLoad
    /\ LastIsTimer("load")' =>
          sent' = Only(last'.timer.sock,
                       LoadOutcome(packages, last'.timer, clock, Diverted'))
\* C35 as the specification states it, of every step of every behaviour
C35_AsClaimed == [][C35_StepAsClaimed]_vars

\* C35, amended: the same, except that a load firing writes its one outcome
\* event only if the connection its load_package came in on is still open,
\* and writes nothing if that connection has closed.
C35_Step ==
    /\ C35_OneTimerPerLoad
    /\ LastIsTimer("load")' =>
          sent' = OnlyIfOpen(sockets, last'.timer.sock,
                       LoadOutcome(packages, last'.timer, clock, Diverted'))
\* C35, amended, stated of every step of every behaviour
C35_Amended == [][C35_Step]_vars

\* two load_package commands with different vehicles were accepted for one
\* package; the timer of one has just fired, loaded the package with its own
\* vehicle and written its package_loaded, that of the other is still pending
C35_Witness ==
    /\ LastIsTimer("load")
    /\ packages[last.timer.pkg].status = "loaded"
    /\ packages[last.timer.pkg].assignedVehicle = last.timer.vehicleId
    /\ sent = Only(last.timer.sock,
                   LoadedEvent(packages, last.timer.pkg, last.timer.vehicleId, clock))
    /\ \E i \in 1..Len(timers) :
          /\ timers[i].kind = "load"
          /\ timers[i].pkg = last.timer.pkg
          /\ timers[i].vehicleId # last.timer.vehicleId

\* the number of timers of the given kind pending for package p among ts
ChainPending(ts, kind, p) ==
    Cardinality({i \in 1..Len(ts) : ts[i].kind = kind /\ ts[i].pkg = p})
\* the events of the receive chain of package p among the output out:
\* package_received, package_ready and simulated_processing_error
ChainEvents(out, p) ==
    {e \in EventsWritten(out) :
        /\ "packageId" \in DOMAIN e
        /\ e.packageId = p
        /\ \/ e.type \in {"package_received", "package_ready"}
           \/ /\ e.type = "error"
              /\ "orderId" \in DOMAIN e
              /\ e.message = "simulated_processing_error"}

\* C36, of a step.  A received timer is scheduled for a package only by the
\* receive_package that creates it, one per package; the received firing takes
\* it away, writes package_received and schedules the one ready timer, on the
\* same socket; the ready firing takes that away and writes package_ready or
\* simulated_processing_error, never both; no other step schedules or removes
\* a timer of the chain or writes one of its events.
C36_Step ==
    \A p \in DOMAIN packages' :
        LET R0 == ChainPending(timers, "received", p)
            Y0 == ChainPending(timers, "ready", p)
            R1 == ChainPending(timers', "received", p)
            Y1 == ChainPending(timers', "ready", p)
            t == last'.timer
        IN IF p \notin DOMAIN packages
           THEN /\ LastIsMessage("receive_package")'
                /\ R0 = 0 /\ Y0 = 0 /\ R1 = 1 /\ Y1 = 0
                /\ ChainEvents(sent', p) = {}
           ELSE IF LastIsTimer("received")' /\ t.pkg = p
           THEN /\ R0 = 1 /\ Y0 = 0 /\ R1 = 0 /\ Y1 = 1
                /\ \A i \in 1..Len(timers') :
                      (timers'[i].kind = "ready" /\ timers'[i].pkg = p) =>
                          timers'[i].sock = t.sock
                /\ sent' = OnlyIfOpen(sockets, t.sock, ReceivedEvent(packages, p, clock))
           ELSE IF LastIsTimer("ready")' /\ t.pkg = p
           THEN /\ R0 = 0 /\ Y0 = 1 /\ R1 = 0 /\ Y1 = 0
                /\ sent' = OnlyIfOpen(sockets, t.sock,
                                IF Diverted' THEN DivertedEvent(packages, t)
                                ELSE ReadyEvent(packages, p, clock))
           ELSE /\ R1 = R0 /\ Y1 = Y0
                /\ ChainEvents(sent', p) = {}
\* C36, of a state: a package has at most one timer of its chain pending
C36_OneChainTimer ==
    \A p \in DOMAIN packages :
        ChainPending(timers, "received", p) + ChainPending(timers, "ready", p) <= 1
\* C36: by the step property the chain timers of a package go from (one
\* received, no ready) at its receive_package to (none, one ready) at the
\* received firing and to (none, none) at the ready firing, and never up
\* again; so each package has at most one received firing and one ready
\* firing (and, every pending timer firing, exactly one), the ready firing
\* comes after the received firing, and the package has at most one of
\* package_ready and simulated_processing_error, after its package_received.
C36_OneChainPerPackage == [][C36_Step]_vars /\ []C36_OneChainTimer

\* the ready timer of a package has just fired into its failure branch and
\* written simulated_processing_error; the chain of the package, whose
\* received firing came a delay earlier, has no timer left
C36_Witness ==
    /\ LastIsTimer("ready")
    /\ Diverted
    /\ sent = Only(last.timer.sock, DivertedEvent(packages, last.timer))
    /\ ChainPending(timers, "received", last.timer.pkg) = 0
    /\ ChainPending(timers, "ready", last.timer.pkg) = 0
    /\ packages[last.timer.pkg].timestamps["received"] = clock - PACKAGE_READY_EXTRA_MS
    /\ packages[last.timer.pkg].status = "error"

\* ------------------------------------------------------ the ROS mock server
\* everything the WMS server holds, which the other two servers never touch
wmsVars == <<sockets, adapterId, adapters, packages, timers, errorMode,
             ERROR_RATE, clock, buffer, requests, idVars, streamVars, sent>>

\* calculateDistance between two of the four places, in units of 10 m
\* (the haversine formula on their coordinates, rounded)
calculateDistance(point1, point2) ==
    LET pair == {point1, point2} IN
    CASE point1 = point2 -> 0
      [] pair = {"nyc", "times_square"} -> 542
      [] pair = {"nyc", "queens"} -> 1787
      [] pair = {"nyc", "brooklyn"} -> 417
      [] pair = {"times_square", "queens"} -> 1638
      [] pair = {"times_square", "brooklyn"} -> 923
      [] pair = {"queens", "brooklyn"} -> 2148
\* Infinity: above every distance
Infinity == 100000

\* the for-of loop of a findNearestAvailableDriver that does not look at the
\* status of a driver
RECURSIVE forOfAny(_, _, _, _)
forOfAny(k, pickupLocation, nearestDriver, minDistance) ==
    IF k > Len(DriverOrder) THEN nearestDriver
    ELSE LET driver == drivers[DriverOrder[k]]
             distance == calculateDistance(driver.currentLocation, pickupLocation)
         IN IF distance < minDistance
            THEN forOfAny(k + 1, pickupLocation,
                          [id |-> DriverOrder[k], distanceToPickup |-> distance],
                          distance)
            ELSE forOfAny(k + 1, pickupLocation, nearestDriver, minDistance)
\* findNearestAvailableDriver without the test of driver.status
findNearestDriver(pickupLocation) == forOfAny(1, pickupLocation, Null, Infinity)

\* the for-of loop of findNearestAvailableDriver, from the k-th entry on
RECURSIVE forOf(_, _, _, _)
forOf(k, pickupLocation, nearestDriver, minDistance) ==
    IF k > Len(DriverOrder) THEN nearestDriver
    ELSE LET driver == drivers[DriverOrder[k]]
             distance == calculateDistance(driver.currentLocation, pickupLocation)
         IN IF driver.status = "available" /\ distance < minDistance
            THEN forOf(k + 1, pickupLocation,
                       [id |-> DriverOrder[k], distanceToPickup |-> distance],
                       distance)
            ELSE forOf(k + 1, pickupLocation, nearestDriver, minDistance)
\* findNearestAvailableDriver
findNearestAvailableDriver(pickupLocation) == forOf(1, pickupLocation, Null, Infinity)

\* the bodies of the assign-driver requests
AssignBodies ==
    {[orderId |-> "order-1", pickupLocation |-> "nyc"],
     [orderId |-> "order-2", pickupLocation |-> "queens"],
     [orderId |-> Absent, pickupLocation |-> "nyc"],
     [orderId |-> "order-1", pickupLocation |-> Absent]}
\* the locations a driver reports
ReportedPlaces == {"brooklyn", Absent}
\* a driverId no driver has
UnknownDriver == "driver-999"

\* POST /api/ros/assign-driver up to its await simulateProcessingDelay(): the
\* request waits while other requests are served
AssignDriverArrives(body) ==
    /\ rosRequests < MaxRosRequests
    /\ rosRequests' = rosRequests + 1
    /\ inFlight' = inFlight \cup {[n |-> rosRequests + 1, body |-> body]}
    /\ last' = [op |-> "ros_request", n |-> rosRequests + 1]
    /\ UNCHANGED <<drivers, trips, wmsVars, cmsVars>>

\* POST /api/ros/assign-driver after the await: the rest of the handler, which
\* runs to its response without another await
assignDriver(q) ==
    LET orderId == q.body.orderId
        pickupLocation == q.body.pickupLocation
    IN IF Falsy(orderId) \/ Falsy(pickupLocation)
       THEN /\ last' = [op |-> "assign_driver", req |-> q, status |-> 400,
                        driverId |-> Absent]
            /\ UNCHANGED <<drivers, trips>>
       ELSE LET assignedDriver == findNearestAvailableDriver(pickupLocation) IN
            IF assignedDriver = Null
            THEN /\ last' = [op |-> "assign_driver", req |-> q, status |-> 404,
                             driverId |-> Absent]
                 /\ UNCHANGED <<drivers, trips>>
            ELSE /\ drivers' = [drivers EXCEPT
                                  ![assignedDriver.id].status = "on-trip",
                                  ![assignedDriver.id].currentOrder = orderId]
                 /\ trips' = [trips EXCEPT ![assignedDriver.id] = Append(@, orderId)]
                 /\ last' = [op |-> "assign_driver", req |-> q, status |-> 200,
                             driverId |-> assignedDriver.id]

AssignDriverResumes(q) ==
    /\ q \in inFlight
    /\ inFlight' = inFlight \ {q}
    /\ assignDriver(q)
    /\ UNCHANGED <<rosRequests, wmsVars, cmsVars>>

\* POST /api/ros/drivers/:driverId/location
UpdateLocation(driverId, place) ==
    /\ rosRequests < MaxRosRequests
    /\ rosRequests' = rosRequests + 1
    /\ IF Falsy(place)
       THEN /\ last' = [op |-> "update_location", driverId |-> driverId, status |-> 400]
            /\ UNCHANGED drivers
       ELSE IF driverId \notin DOMAIN drivers
       THEN /\ last' = [op |-> "update_location", driverId |-> driverId, status |-> 404]
            /\ UNCHANGED drivers
       ELSE /\ drivers' = [drivers EXCEPT ![driverId].currentLocation = place]
            /\ last' = [op |-> "update_location", driverId |-> driverId, status |-> 200]
    /\ UNCHANGED <<inFlight, trips, wmsVars, cmsVars>>

\* POST /api/ros/drivers/:driverId/reset
ResetDriver(driverId) ==
    /\ rosRequests < MaxRosRequests
    /\ rosRequests' = rosRequests + 1
    /\ IF driverId \notin DOMAIN drivers
       THEN /\ last' = [op |-> "reset", driverId |-> driverId, status |-> 404]
            /\ UNCHANGED <<drivers, trips>>
       ELSE /\ drivers' = [drivers EXCEPT ![driverId].status = "available",
                                          ![driverId].currentOrder = Absent]
            /\ trips' = [trips EXCEPT ![driverId] = <<>>]
            /\ last' = [op |-> "reset", driverId |-> driverId, status |-> 200]
    /\ UNCHANGED <<inFlight, wmsVars, cmsVars>>

RosNext ==
    \/ \E body \in AssignBodies : AssignDriverArrives(body)
    \/ \E q \in inFlight : AssignDriverResumes(q)
    \/ \E d \in Drivers \cup {UnknownDriver} : \E place \in ReportedPlaces :
          UpdateLocation(d, place)
    \/ \E d \in Drivers \cup {UnknownDriver} : ResetDriver(d)

RosSpec == Init /\ [][RosNext]_vars

\* C37, of a step.  An assign-driver request that is answered 200 names a
\* driver that was available when the handler chose it and is on-trip, with
\* the order of the request, when the handler has answered: choice and update
\* are one step, whatever requests are in flight beside it.  It is answered
\* 404 exactly when its body is complete and no driver is available, and then,
\* as when it is answered 400, no driver changes.  No driver but the chosen
\* one changes, and a driver becomes available again only by its reset.
C37_Step ==
    /\ last'.op = "assign_driver" =>
          LET body == last'.req.body
              complete == ~Falsy(body.orderId) /\ ~Falsy(body.pickupLocation)
              free == {d \in Drivers : drivers[d].status = "available"}
          IN /\ last'.status = 400 <=> ~complete
             /\ last'.status = 404 <=> (complete /\ free = {})
             /\ last'.status = 200 <=> (complete /\ free # {})
             /\ last'.status \in {400, 404} => drivers' = drivers
             /\ last'.status = 200 =>
                   /\ last'.driverId \in free
                   /\ drivers'[last'.driverId].status = "on-trip"
                   /\ drivers'[last'.driverId].currentOrder = body.orderId
                   /\ \A d \in Drivers \ {last'.driverId} : drivers'[d] = drivers[d]
    /\ \A d \in Drivers :
          (drivers[d].status # "available" /\ drivers'[d].status = "available") =>
              (last'.op = "reset" /\ last'.driverId = d)
\* C37, of a state: no driver holds two orders assigned since its last reset
C37_NoDoubleAssignment == \A d \in Drivers : Len(trips[d]) <= 1
\* C37: every step is as C37_Step says and no driver is ever assigned twice
\* without a reset in between
C37_AssignmentIsAtomic == [][C37_Step]_vars /\ []C37_NoDoubleAssignment

\* two assign-driver requests were in flight together; the one that arrived
\* second was served first, and the one that arrived first has just been
\* given another driver
C37_Witness ==
    /\ last.op = "assign_driver"
    /\ last.status = 200
    /\ last.req.n = 1
    /\ trips[last.driverId] = <<last.req.body.orderId>>
    /\ \E d \in Drivers \ {last.driverId} :
          /\ trips[d] # <<>>
          /\ trips[d][1] # last.req.body.orderId
          /\ drivers[d].status = "on-trip"

\* ------------------------------------------------------ the CMS mock server
\* The SOAP facade: CreateOrder and GetOrderStatus read and write cmsOrders,
\* GetClient and the faults touch no state.  Time is counted in ticks of
\* 2000 ms: the two delays of CreateOrder are 2000 ms and 6000 ms.
CMS_PROCESSING_MS == 1
CMS_CONFIRMED_MS == 3

\* makeCmsId: 'CMS-' and eight hex digits of a fresh uuid; as with shortId,
\* the n-th identifier stands for the n-th draw
makeCmsId == "CMS-" \o shortId(Cardinality(DOMAIN cmsOrders) + 1)
CmsIds == {"CMS-" \o shortId(n) : n \in 1..MaxCmsRequests}
\* an identifier no order has
UnknownCmsId == "CMS-0"

\* POST /soap, action CreateOrder; fail is the query parameter fail=true
createOrder(fail) ==
    IF fail
    THEN /\ last' = [op |-> "create_order", status |-> 500, cmsOrderId |-> Absent]
         /\ UNCHANGED <<cmsOrders, cmsTimers>>
    ELSE LET cmsOrderId == makeCmsId IN
         /\ cmsOrders' = (cmsOrderId :> [cmsOrderId |-> cmsOrderId,
                                         status |-> "Received"]) @@ cmsOrders
         /\ cmsTimers' = cmsTimers \o
               << [cmsOrderId |-> cmsOrderId, status |-> "Processing",
                   due |-> cmsClock + CMS_PROCESSING_MS],
                  [cmsOrderId |-> cmsOrderId, status |-> "Confirmed",
                   due |-> cmsClock + CMS_CONFIRMED_MS] >>
         /\ last' = [op |-> "create_order", status |-> 200, cmsOrderId |-> cmsOrderId]

CreateOrder(fail) ==
    /\ cmsRequests < MaxCmsRequests
    /\ cmsRequests' = cmsRequests + 1
    /\ createOrder(fail)
    /\ UNCHANGED <<cmsClock, wmsVars, rosVars>>

\* POST /soap, action GetOrderStatus
GetOrderStatus(cmsOrderId) ==
    /\ cmsRequests < MaxCmsRequests
    /\ cmsRequests' = cmsRequests + 1
    /\ last' = [op |-> "get_order_status", cmsOrderId |-> cmsOrderId,
                Status |-> IF cmsOrderId \in DOMAIN cmsOrders
                           THEN cmsOrders[cmsOrderId].status
                           ELSE "NotFound"]
    /\ UNCHANGED <<cmsOrders, cmsTimers, cmsClock, wmsVars, rosVars>>

\* POST /admin/orders/:cmsId/fail that also drops the pending timers of the
\* order
adminFailCancelling(cmsId) ==
    IF cmsId \notin DOMAIN cmsOrders
    THEN /\ last' = [op |-> "admin_fail", cmsId |-> cmsId, status |-> 404]
         /\ UNCHANGED <<cmsOrders, cmsTimers>>
    ELSE /\ cmsOrders' = [cmsOrders EXCEPT ![cmsId].status = "Error"]
         /\ cmsTimers' = SelectSeq(cmsTimers, LAMBDA t : t.cmsOrderId # cmsId)
         /\ last' = [op |-> "admin_fail", cmsId |-> cmsId, status |-> 200]

\* POST /admin/orders/:cmsId/fail
adminFail(cmsId) ==
    IF cmsId \notin DOMAIN cmsOrders
    THEN /\ last' = [op |-> "admin_fail", cmsId |-> cmsId, status |-> 404]
         /\ UNCHANGED <<cmsOrders, cmsTimers>>
    ELSE /\ cmsOrders' = [cmsOrders EXCEPT ![cmsId].status = "Error"]
         /\ cmsTimers' = cmsTimers
         /\ last' = [op |-> "admin_fail", cmsId |-> cmsId, status |-> 200]

AdminFail(cmsId) ==
    /\ cmsRequests < MaxCmsRequests
    /\ cmsRequests' = cmsRequests + 1
    /\ adminFail(cmsId)
    /\ UNCHANGED <<cmsClock, wmsVars, rosVars>>

\* a setTimeout callback of CreateOrder runs in the tick in which it falls
\* due; the step records the status it overwrites
CmsFire(i) ==
    LET t == cmsTimers[i] IN
    /\ t.due <= cmsClock
    /\ cmsOrders' = IF t.cmsOrderId \in DOMAIN cmsOrders
                    THEN [cmsOrders EXCEPT ![t.cmsOrderId].status = t.status]
                    ELSE cmsOrders
    /\ cmsTimers' = RemoveAt(cmsTimers, i)
    /\ last' = [op |-> "cms_timer", timer |-> t,
                was |-> cmsOrders[t.cmsOrderId].status]
    /\ UNCHANGED <<cmsClock, cmsRequests, wmsVars, rosVars>>

\* time passes while no callback is due
CmsTick ==
    /\ cmsTimers # <<>>
    /\ \A i \in 1..Len(cmsTimers) : cmsTimers[i].due > cmsClock
    /\ cmsClock' = cmsClock + 1
    /\ last' = [op |-> "cms_tick"]
    /\ UNCHANGED <<cmsOrders, cmsTimers, cmsRequests, wmsVars, rosVars>>

CmsNext ==
    \/ \E fail \in BOOLEAN : CreateOrder(fail)
    \/ \E id \in CmsIds \cup {UnknownCmsId} : GetOrderStatus(id)
    \/ \E id \in CmsIds \cup {UnknownCmsId} : AdminFail(id)
    \/ \E i \in 1..Len(cmsTimers) : CmsFire(i)
    \/ CmsTick

CmsSpec == Init /\ [][CmsNext]_vars

\* the event loop lets time pass and runs every callback that is due
FairCmsSpec ==
    /\ CmsSpec
    /\ WF_vars(CmsTick)
    /\ WF_vars(\E i \in 1..Len(cmsTimers) : CmsFire(i))

\* a timer that sets the given status is pending for order id among ts
CmsPending(ts, id, status) ==
    \E i \in 1..Len(ts) : ts[i].cmsOrderId = id /\ ts[i].status = status

\* C38, of a step.  A CreateOrder that is accepted stores a new order in
\* status Received and schedules its two timers; a timer sets the status it
\* carries 2000 ms (Processing) or 6000 ms (Confirmed) after the CreateOrder,
\* whatever the status is by then, Error included; the admin fail endpoint
\* sets Error and leaves every pending timer in place; a timer goes only by
\* firing.
C38_Step ==
    /\ (last'.op = "create_order" /\ last'.status = 200) =>
          LET id == last'.cmsOrderId IN
          /\ id \notin DOMAIN cmsOrders
          /\ cmsOrders'[id].status = "Received"
          /\ \A o \in DOMAIN cmsOrders : cmsOrders'[o] = cmsOrders[o]
          /\ cmsTimers' = cmsTimers \o
                << [cmsOrderId |-> id, status |-> "Processing",
                    due |-> cmsClock + CMS_PROCESSING_MS],
                   [cmsOrderId |-> id, status |-> "Confirmed",
                    due |-> cmsClock + CMS_CONFIRMED_MS] >>
    /\ last'.op = "cms_timer" =>
          LET t == last'.timer IN
          /\ cmsClock = t.due
          /\ cmsOrders'[t.cmsOrderId].status = t.status
          /\ \A o \in DOMAIN cmsOrders \ {t.cmsOrderId} : cmsOrders'[o] = cmsOrders[o]
          /\ t.status = "Processing" => CmsPending(cmsTimers', t.cmsOrderId, "Confirmed")
          /\ t.status = "Confirmed" => ~CmsPending(cmsTimers, t.cmsOrderId, "Processing")
    /\ (last'.op = "admin_fail" /\ last'.status = 200) =>
          /\ cmsOrders'[last'.cmsId].status = "Error"
          /\ cmsTimers' = cmsTimers
    /\ last'.op # "cms_timer" =>
          /\ Len(cmsTimers') >= Len(cmsTimers)
          /\ SubSeq(cmsTimers', 1, Len(cmsTimers)) = cmsTimers
\* C38, of a state: the status of an order follows its timers.  Received or
\* Error while both are pending, Processing or Error between the two, and
\* Confirmed or Error when both have fired.
C38_StatusFollowsTimers ==
    \A id \in DOMAIN cmsOrders :
        LET first == CmsPending(cmsTimers, id, "Processing")
            second == CmsPending(cmsTimers, id, "Confirmed")
        IN /\ first => second
           /\ cmsOrders[id].status \in
                 IF first THEN {"Received", "Error"}
                 ELSE IF second THEN {"Processing", "Error"}
                 ELSE {"Confirmed", "Error"}
\* an order is in status Error with a timer of its own still pending
C38_ErrorUnderTimer(id) ==
    /\ id \in DOMAIN cmsOrders
    /\ cmsOrders[id].status = "Error"
    /\ CmsPending(cmsTimers, id, "Confirmed")
\* C38: the chain Received, Processing, Confirmed runs in that order at the
\* two timers, and an order set to Error before they have fired is later
\* overwritten to Processing or Confirmed.
C38_TimerChainOverwritesError ==
    /\ [][C38_Step]_vars
    /\ []C38_StatusFollowsTimers
    /\ \A id \in CmsIds :
          C38_ErrorUnderTimer(id) ~>
              (/\ id \in DOMAIN cmsOrders
               /\ cmsOrders[id].status \in {"Processing", "Confirmed"})

\* an order was set to Error by the admin endpoint before its first timer
\* fired, and that timer has just overwritten the Error with Processing
C38_Witness ==
    /\ last.op = "cms_timer"
    /\ last.was = "Error"
    /\ last.timer.status = "Processing"
    /\ cmsOrders[last.timer.cmsOrderId].status = "Processing"
    /\ CmsPending(cmsTimers, last.timer.cmsOrderId, "Confirmed")
====
